---------------------------- MODULE Spec2Model ----------------------------
(***************************************************************************)
(* A model of TvTimeToTrakt's reconciliation-and-replay engine:            *)
(*   searcher.py   Title, Title.matches, Title.items_with_same_name,       *)
(*                 TVTimeTVShow.parse_season_number, Searcher.search       *)
(*   processor.py  Processor.process_item and its two subclasses           *)
(*   TimeToTrakt.py  the older procedural version of the same functions    *)
(*                                                                         *)
(* Strings are sequences of one-character strings, so that split, strip,   *)
(* the substring test and the year regex are computed as Python does.      *)
(***************************************************************************)
EXTENDS Integers, Sequences, FiniteSets, Bags, TLC

(***************************************************************************)
(* Bounds of the model.                                                    *)
(***************************************************************************)
MaxNameLen == 3
MaxTitleLen == 4
MaxSeason == 3
MaxCatalogSeasons == 2

(***************************************************************************)
(* Python values.                                                          *)
(***************************************************************************)
\* Optional[int] None (a year parsed by the regex has no sign, so -1 is free)
None == -1

Digits == <<"0", "1", "2", "3", "4", "5", "6", "7", "8", "9">>
IsDigit(c) == \E i \in 1..Len(Digits) : Digits[i] = c
DigitVal(c) == (CHOOSE i \in 1..Len(Digits) : Digits[i] = c) - 1
Letters == {"a", "b", "c", "d", "A", "B"}
\* the regex class [A-Za-z0-9_]
IsWordChar(c) == IsDigit(c) \/ c \in Letters \/ c = "_"
IsSpace(c) == c = " "

\* all strings over alphabet A of length at most n
StringsUpTo(A, n) == UNION {[1..k -> A] : k \in 0..n}

(***************************************************************************)
(* str.split(): split on runs of whitespace, no empty tokens.              *)
(***************************************************************************)
RECURSIVE SplitFrom(_, _, _)
SplitFrom(s, cur, acc) ==
  IF s = <<>>
    THEN (IF cur = <<>> THEN acc ELSE Append(acc, cur))
    ELSE IF IsSpace(Head(s))
      THEN SplitFrom(Tail(s), <<>>, IF cur = <<>> THEN acc ELSE Append(acc, cur))
      ELSE SplitFrom(Tail(s), Append(cur, Head(s)), acc)

split(s) == SplitFrom(s, <<>>, <<>>)

\* Python's  word in other  on strings: the substring test
In(word, other) ==
  \E i \in 0..(Len(other) - Len(word)) :
     SubSeq(other, i + 1, i + Len(word)) = word

\* str.strip()
RECURSIVE LStrip(_)
LStrip(s) == IF s # <<>> /\ IsSpace(Head(s)) THEN LStrip(Tail(s)) ELSE s
RECURSIVE RStrip(_)
RStrip(s) ==
  IF s # <<>> /\ IsSpace(s[Len(s)]) THEN RStrip(SubSeq(s, 1, Len(s) - 1)) ELSE s
strip(s) == RStrip(LStrip(s))

(***************************************************************************)
(* Title.matches (searcher.py 72-92).  The result is "True", "False" or    *)
(* the exception the division raises.                                      *)
(***************************************************************************)
matches_denominator_of_name(name, other) ==
  IF name = other THEN "True"
  ELSE LET words_matched == SelectSeq(split(name), LAMBDA word : In(word, other))
       IN IF Len(split(name)) = 0 THEN "ZeroDivisionError"
          ELSE IF Len(words_matched) * 100 > 50 * Len(split(name))
                 THEN "True" ELSE "False"

matches(name, other) ==
  IF name = other THEN "True"
  ELSE LET words_matched == SelectSeq(split(name), LAMBDA word : In(word, other))
       IN \* quotient = len(words_matched) / len(other.split())
          IF Len(split(other)) = 0 THEN "ZeroDivisionError"
          \* percentage = quotient * 100; return percentage > 50
          ELSE IF Len(words_matched) * 100 > 50 * Len(split(other))
                 THEN "True" ELSE "False"


(***************************************************************************)
(* check_title_name_match (TimeToTrakt.py 141-163): the same predicate in  *)
(* the procedural version.                                                 *)
(***************************************************************************)
check_title_name_match(tv_time_title, trakt_title) ==
  IF tv_time_title = trakt_title THEN "True"
  ELSE LET tv_time_title_split == split(tv_time_title)
           words_matched ==
             SelectSeq(tv_time_title_split, LAMBDA word : In(word, trakt_title))
       IN IF Len(split(trakt_title)) = 0 THEN "ZeroDivisionError"
          ELSE IF Len(words_matched) * 100 > 50 * Len(split(trakt_title))
                 THEN "True" ELSE "False"

(***************************************************************************)
(* re.search(r"\(([A-Za-z0-9_]+)\)", title): the leftmost "(" that is      *)
(* followed by one or more word characters and then ")".  <<>> is Python's *)
(* None (no match), <<g>> a match whose group(1) is g.                     *)
(***************************************************************************)
GroupEnd(s, i) ==
  {j \in (i + 2)..Len(s) :
     s[j] = ")" /\ \A k \in (i + 1)..(j - 1) : IsWordChar(s[k])}

MatchStarts(s) == {i \in 1..Len(s) : s[i] = "(" /\ GroupEnd(s, i) # {}}

year_search(s) ==
  IF MatchStarts(s) = {} THEN <<>>
  ELSE LET i == CHOOSE m \in MatchStarts(s) : \A n \in MatchStarts(s) : m <= n
           j == CHOOSE e \in GroupEnd(s, i) : TRUE
       IN <<SubSeq(s, i + 1, j - 1)>>

\* int(g) for g made of word characters: digits, single underscores between
\* digits allowed; anything else raises ValueError
IntParses(g) ==
  /\ g # <<>>
  /\ \A k \in 1..Len(g) : IsDigit(g[k]) \/ g[k] = "_"
  /\ IsDigit(g[1]) /\ IsDigit(g[Len(g)])
  /\ \A k \in 1..(Len(g) - 1) : ~(g[k] = "_" /\ g[k + 1] = "_")

RECURSIVE IntFrom(_, _)
IntFrom(g, acc) ==
  IF g = <<>> THEN acc
  ELSE IF Head(g) = "_" THEN IntFrom(Tail(g), acc)
       ELSE IntFrom(Tail(g), acc * 10 + DigitVal(Head(g)))

int(g) == IntFrom(g, 0)

\* title.split("(")[0]
BeforeParen(s) ==
  IF \E i \in 1..Len(s) : s[i] = "("
    THEN SubSeq(s, 1, (CHOOSE i \in 1..Len(s) :
                        s[i] = "(" /\ \A k \in 1..(i - 1) : s[k] # "(") - 1)
    ELSE s

(***************************************************************************)
(* Title.__init__ (searcher.py 27-47).                                     *)
(***************************************************************************)
Title_without_strip(title, year) ==
  IF year # None
    THEN [name |-> title, without_year |-> title, year |-> year]
    ELSE LET m == year_search(title)
         IN IF m = <<>> \/ ~IntParses(m[1])
              THEN [name |-> title, without_year |-> title, year |-> None]
              ELSE [name |-> title, without_year |-> BeforeParen(title),
                    year |-> int(m[1])]

Title_catches_only_value_error(title, year) ==
  IF year # None
    THEN [name |-> title, without_year |-> title, year |-> year]
    ELSE LET m == year_search(title)
         IN IF m = <<>> THEN [exc |-> "AttributeError"]
            ELSE IF ~IntParses(m[1])
              THEN [name |-> title, without_year |-> title, year |-> None]
              ELSE [name |-> title, without_year |-> strip(BeforeParen(title)),
                    year |-> int(m[1])]

Title(title, year) ==
  IF year # None
    THEN [name |-> title, without_year |-> title, year |-> year]
    ELSE LET m == year_search(title)
         IN \* year_search is None, or int() raises: the except branch
            IF m = <<>> \/ ~IntParses(m[1])
              THEN [name |-> title, without_year |-> title, year |-> None]
              ELSE [name |-> title, without_year |-> strip(BeforeParen(title)),
                    year |-> int(m[1])]

(***************************************************************************)
(* Python truthiness of an Optional[int]:  if self.year:                   *)
(***************************************************************************)
Truthy(year) == year # None /\ year # 0

(***************************************************************************)
(* Title.items_with_same_name (searcher.py 49-70).  items is the list the  *)
(* catalog search returned, each item a record with title and year.  The   *)
(* result is [exc, items]: exc is "none" or the exception matches raised.  *)
(***************************************************************************)
RECURSIVE items_loop_no_break(_, _, _)
items_loop_no_break(self, items, with_same_name) ==
  IF items = <<>> THEN [exc |-> "none", items |-> with_same_name]
  ELSE LET item == Head(items)
           m == matches(self.name, item.title)
       IN IF m = "ZeroDivisionError"
            THEN [exc |-> "ZeroDivisionError", items |-> <<>>]
          ELSE IF m = "True"
            THEN IF Truthy(self.year)
                   THEN IF self.name = item.title /\ item.year = self.year
                          THEN items_loop_no_break(self, Tail(items), <<item>>)
                        ELSE IF item.year = self.year
                          THEN items_loop_no_break(self, Tail(items),
                                                   Append(with_same_name, item))
                          ELSE items_loop_no_break(self, Tail(items), with_same_name)
                   ELSE items_loop_no_break(self, Tail(items),
                                            Append(with_same_name, item))
          ELSE items_loop_no_break(self, Tail(items), with_same_name)

RECURSIVE items_loop(_, _, _)
items_loop(self, items, with_same_name) ==
  IF items = <<>> THEN [exc |-> "none", items |-> with_same_name]
  ELSE LET item == Head(items)
           m == matches(self.name, item.title)
       IN IF m = "ZeroDivisionError"
            THEN [exc |-> "ZeroDivisionError", items |-> <<>>]
          ELSE IF m = "True"
            THEN IF Truthy(self.year)
                   THEN \* a 1:1 title match with the same year: keep only it, break
                        IF self.name = item.title /\ item.year = self.year
                          THEN [exc |-> "none", items |-> <<item>>]
                        ELSE IF item.year = self.year
                          THEN items_loop(self, Tail(items),
                                          Append(with_same_name, item))
                          ELSE items_loop(self, Tail(items), with_same_name)
                   ELSE items_loop(self, Tail(items), Append(with_same_name, item))
          ELSE items_loop(self, Tail(items), with_same_name)

items_with_same_name(self, items) == items_loop(self, items, <<>>)

(***************************************************************************)
(* The same filter in get_show_by_name (TimeToTrakt.py 102-129, 166-207):  *)
(* the year is -1 when absent, and both the matching and the 1:1 test use  *)
(* the name with the year stripped.                                        *)
(***************************************************************************)
get_year_from_title(title) ==
  LET m == year_search(title)
  IN IF m = <<>> \/ ~IntParses(m[1])
       THEN [full_title |-> title, titleWithoutYear |-> title, yearValue |-> -1]
       ELSE [full_title |-> title, titleWithoutYear |-> strip(BeforeParen(title)),
             yearValue |-> int(m[1])]

RECURSIVE shows_loop(_, _, _, _)
shows_loop(name, title_obj, tv_search, shows_with_same_name) ==
  IF tv_search = <<>> THEN [exc |-> "none", items |-> shows_with_same_name]
  ELSE LET show == Head(tv_search)
           m == check_title_name_match(name, show.title)
           does_title_include_year == title_obj.yearValue # -1
       IN IF m = "ZeroDivisionError"
            THEN [exc |-> "ZeroDivisionError", items |-> <<>>]
          ELSE IF m = "True"
            THEN IF does_title_include_year
                   THEN IF name = show.title /\ show.year = title_obj.yearValue
                          THEN [exc |-> "none", items |-> <<show>>]
                        ELSE IF show.year = title_obj.yearValue
                          THEN shows_loop(name, title_obj, Tail(tv_search),
                                          Append(shows_with_same_name, show))
                          ELSE shows_loop(name, title_obj, Tail(tv_search),
                                          shows_with_same_name)
                   ELSE shows_loop(name, title_obj, Tail(tv_search),
                                   Append(shows_with_same_name, show))
          ELSE shows_loop(name, title_obj, Tail(tv_search), shows_with_same_name)

get_show_by_name_filter(raw, tv_search) ==
  LET title_obj == get_year_from_title(raw)
      name == IF title_obj.yearValue # -1 THEN title_obj.titleWithoutYear ELSE raw
  IN shows_loop(name, title_obj, tv_search, <<>>)

(***************************************************************************)
(* TVTimeTVShow.parse_season_number (searcher.py 113-137).  seasons is the *)
(* list of the season numbers of trakt_show.seasons; the result is         *)
(* [exc, val], exc = "IndexError" when seasons[0] does not exist.          *)
(***************************************************************************)
parse_season_number_always_subtract(season_number, seasons) ==
  IF seasons = <<>> THEN [exc |-> "IndexError", val |-> 0]
  ELSE LET first_season_no == seasons[1]
       IN IF first_season_no = 0
            THEN [exc |-> "none", val |-> season_number]
            ELSE [exc |-> "none", val |-> season_number - 1]

parse_season_number(season_number, seasons) ==
  IF seasons = <<>> THEN [exc |-> "IndexError", val |-> 0]
  ELSE LET first_season_no == seasons[1]
       IN IF first_season_no = 0
            THEN [exc |-> "none", val |-> season_number]
            ELSE IF season_number # 0
                   THEN [exc |-> "none", val |-> season_number - 1]
                   ELSE [exc |-> "none", val |-> season_number]

(***************************************************************************)
(* Python list indexing xs[i]: negative indices count from the end, and an *)
(* index outside -len..len-1 raises IndexError.                            *)
(***************************************************************************)
IndexOk(xs, i) == -Len(xs) <= i /\ i < Len(xs)
At(xs, i) == IF i >= 0 THEN xs[i + 1] ELSE xs[Len(xs) + i + 1]

(***************************************************************************)
(* State.                                                                  *)
(***************************************************************************)
VARIABLES
  \* database.py: the four TinyDB tables, each a bag of rows
  syncedEpisodesTable, userMatchedShowsTable,
  syncedMoviesTable, userMatchedMoviesTable,
  \* the run: start()'s menu selection (1 shows, 2 movies), the names of the
  \* batch's 'watch' movies
  menu_selection, watched_list,
  \* Processor.process_item: the row in hand, the position in the code, the
  \* locals error_streak and trakt_item
  tv_time_item, pc, error_streak, trakt_item,
  \* Searcher: self.items_with_same_name while the prompt is open
  searcher_items,
  \* observation of the current row: how process_item ended, whether its
  \* logical key was in the Ledger when it started, the catalog searches and
  \* the mutation calls made for it, whether an unclassified exception
  \* was counted in its streak
  outcome, key_at_start, n_search, unclassified, mutations,
  \* observation across runs: successful mutation calls per logical key, and
  \* runs that ended between a mutation call and its Ledger write
  applied, lost,
  \* observation of the searcher: the decisions the human made, each with
  \* the list that was shown
  decided,
  \* observation of the current row: what the last Searcher.search went by,
  \* "single" (_check_single_result), "memo" (_search_local), "prompt"
  \* (_handle_multiple_manually) or "none" (no candidate, or no search yet)
  resolved_by,
  \* a single call of a pure function: its arguments and its result
  call, ret

tables == <<syncedEpisodesTable, userMatchedShowsTable,
            syncedMoviesTable, userMatchedMoviesTable>>
runVars == <<menu_selection, watched_list>>
itemVars == <<tv_time_item, pc, error_streak, trakt_item, searcher_items>>
obsVars == <<outcome, key_at_start, n_search, unclassified, mutations,
             applied, lost, decided, resolved_by>>
procVars == <<tables, runVars, itemVars, obsVars>>
pureVars == <<call, ret>>
vars == <<procVars, pureVars>>

(***************************************************************************)
(* The inputs the model draws from.                                        *)
(***************************************************************************)
MaxResults == 2
MaxLost == 1

\* series_name / movie_name values of the export: "a" and "a (1)"
NameA == <<"a">>
NameA1 == <<"a", " ", "(", "1", ")">>
RawNames == {NameA, NameA1}

\* what the catalog can return: title, year and (for a show) the seasons,
\* each with its number and its count of episodes
ItemX == [id |-> "X", title |-> <<"a">>, year |-> 1,
          seasons |-> <<[season |-> 1, episodes |-> 1]>>]
ItemY == [id |-> "Y", title |-> <<"a">>, year |-> 2,
          seasons |-> <<[season |-> 0, episodes |-> 1],
                        [season |-> 1, episodes |-> 2]>>]
ItemZ == [id |-> "Z", title |-> <<"a", "b">>, year |-> 1, seasons |-> <<>>]
Catalog == {ItemX, ItemY, ItemZ}
SearchResults == UNION {[1..k -> Catalog] : k \in 0..MaxResults}

\* the local trakt_item before its first assignment
Unbound == [id |-> "unbound", title |-> <<>>, year |-> None, seasons |-> <<>>]

\* the rows of the export: two episodes, each of its own series, with the
\* season and episode numbers the export may give them
EpisodeIds == {"E1", "E2"}
ShowRows ==
  {row \in [kind : {"show"}, name : RawNames, season_number : 0..1,
            episode_number : 0..2, episode_id : EpisodeIds] :
     row.episode_id = "E1" <=> row.name = NameA}
\* release_year is None for a release date of 0000 or a year <= 1800
MovieNames == {NameA}
MovieRows ==
  [kind : {"movie"}, name : MovieNames, activity_type : {"watch", "watchlist"},
   release_year : {None, 1}]
NoRow == [kind |-> "none"]

\* what the catalog search and the mutation calls can raise
ExternalErrors ==
  {"NotFoundException", "RateLimitException", "JSONDecodeError", "Exception"}

\* what the human can type at the prompt: SKIP, a number, or anything else
PromptNumbers == 0..(MaxResults + 1)

(***************************************************************************)
(* TinyDB tables as bags of rows: insert, and the length of a search.      *)
(***************************************************************************)
insert_replacing(table, row) == SetToBag({row})

insert(table, row) == table (+) SetToBag({row})
CountRows(table, Q(_)) ==
  LET hit == {r \in DOMAIN table : Q(r)}
  IN BagCardinality([r \in hit |-> table[r]])

\* The Ledger entry a row is deduplicated on (spec 3): the episode id, or
\* the movie name and type.  The type column holds "watched" for 'watch'.
LedgerType(activity_type) ==
  IF activity_type = "watch" THEN "watched" ELSE "watchlist"
EpisodeKey(id) == [kind |-> "episode", id |-> id, name |-> <<>>, type |-> ""]
MovieKey(name, type) == [kind |-> "movie", id |-> "", name |-> name, type |-> type]
LogicalKey(row) ==
  IF row.kind = "show" THEN EpisodeKey(row.episode_id)
  ELSE MovieKey(row.name, LedgerType(row.activity_type))
AllKeys ==
  {EpisodeKey(id) : id \in EpisodeIds}
  \cup {MovieKey(n, t) : n \in MovieNames, t \in {"watched", "watchlist"}}
InLedger(key) ==
  IF key.kind = "episode"
    THEN CountRows(syncedEpisodesTable, LAMBDA r : r.episodeId = key.id) # 0
    ELSE CountRows(syncedMoviesTable,
                   LAMBDA r : r.movie_name = key.name /\ r.type = key.type) # 0

(***************************************************************************)
(* Processor: the hooks of the two subclasses (processor.py 127-143,       *)
(* 182-200).                                                               *)
(***************************************************************************)
\* error_streak > 10 (processor.py 53)
StreakLimit == 10

give_up_at_limit(streak) == streak >= StreakLimit

give_up_never(streak) == FALSE

give_up(streak) == streak > StreakLimit

get_synced_items_never(row) == 0

\* len(self._get_synced_items(tv_time_item))
get_synced_items(row) ==
  IF row.kind = "show"
    THEN CountRows(syncedEpisodesTable, LAMBDA r : r.episodeId = row.episode_id)
    ELSE CountRows(syncedMoviesTable,
                   LAMBDA r : r.movie_name = row.name /\ r.type = "watched")

should_continue_always(row) == TRUE

should_continue(row) ==
  IF row.kind = "show" THEN TRUE
  ELSE ~(row.name \in watched_list /\ row.activity_type # "watch")

\* TVTimeItem.title: Title(name), and for a movie with a valid release date
\* Title(self.title.name, release_date.year) (searcher.py 95-98, 140-155)
title_of(row) ==
  IF row.kind = "movie" /\ row.release_year # None
    THEN Title(Title(row.name, None).name, row.release_year)
    ELSE Title(row.name, None)

\* Searcher.search: self.name (searcher.py 165-168)
searcher_name(title) ==
  IF Truthy(title.year) THEN title.without_year ELSE title.name

user_matched_table_shared(kind) == userMatchedShowsTable

\* TVShowSearcher / MovieSearcher: the table handed to Searcher.__init__
\* (searcher.py 260-262, 282-284)
user_matched_table(kind) ==
  IF kind = "show" THEN userMatchedShowsTable ELSE userMatchedMoviesTable

(***************************************************************************)
(* Searcher._check_single_result (searcher.py 251-257): <<>> is None.      *)
(***************************************************************************)
check_single_result_exact_only(name, items) ==
  LET complete_match_names == SelectSeq(items, LAMBDA i : i.title = name)
  IN IF Len(complete_match_names) = 1 THEN <<complete_match_names[1]>>
     ELSE <<>>

check_single_result_first_exact(name, items) ==
  LET complete_match_names == SelectSeq(items, LAMBDA i : i.title = name)
  IN IF Len(complete_match_names) >= 1 THEN <<complete_match_names[1]>>
     ELSE IF Len(items) = 1 THEN <<items[1]>>
     ELSE <<>>

check_single_result(name, items) ==
  LET complete_match_names == SelectSeq(items, LAMBDA i : i.title = name)
  IN IF Len(complete_match_names) = 1 THEN <<complete_match_names[1]>>
     ELSE IF Len(items) = 1 THEN <<items[1]>>
     ELSE <<>>

(***************************************************************************)
(* Searcher._search_local (searcher.py 197-211).  The result says whether  *)
(* search() returns at once, and then what: an item, None or IndexError.   *)
(***************************************************************************)
search_local_first_item(table, name, items) ==
  LET query_result == {r \in DOMAIN table : r.Name = name}
  IN IF CountRows(table, LAMBDA r : r.Name = name) = 1
       THEN LET first_match == CHOOSE r \in query_result : TRUE
            IN IF first_match.Skip
                 THEN [should_return |-> TRUE, exc |-> "none", item |-> <<>>]
                 ELSE [should_return |-> TRUE, exc |-> "none",
                       item |-> <<At(items, 0)>>]
       ELSE [should_return |-> FALSE, exc |-> "none", item |-> <<>>]

search_local_ignores_skip(table, name, items) ==
  LET query_result == {r \in DOMAIN table : r.Name = name}
  IN IF CountRows(table, LAMBDA r : r.Name = name) = 1
       THEN LET first_match == CHOOSE r \in query_result : TRUE
                first_match_selected_index == first_match.UserSelectedIndex
            IN IF IndexOk(items, first_match_selected_index)
                 THEN [should_return |-> TRUE, exc |-> "none",
                       item |-> <<At(items, first_match_selected_index)>>]
                 ELSE [should_return |-> TRUE, exc |-> "IndexError",
                       item |-> <<>>]
       ELSE [should_return |-> FALSE, exc |-> "none", item |-> <<>>]

search_local_finds_nothing(table, name, items) ==
  [should_return |-> FALSE, exc |-> "none", item |-> <<>>]

search_local(table, name, items) ==
  LET query_result == {r \in DOMAIN table : r.Name = name}
  IN IF CountRows(table, LAMBDA r : r.Name = name) = 1
       THEN LET first_match == CHOOSE r \in query_result : TRUE
                first_match_selected_index == first_match.UserSelectedIndex
            IN IF first_match.Skip
                 THEN [should_return |-> TRUE, exc |-> "none", item |-> <<>>]
                 ELSE IF IndexOk(items, first_match_selected_index)
                   THEN [should_return |-> TRUE, exc |-> "none",
                         item |-> <<At(items, first_match_selected_index)>>]
                   ELSE [should_return |-> TRUE, exc |-> "IndexError",
                         item |-> <<>>]
       ELSE [should_return |-> FALSE, exc |-> "none", item |-> <<>>]

(***************************************************************************)
(* Searcher.search up to the prompt (searcher.py 164-187), on the list the *)
(* catalog returned.  The result is one of                                 *)
(*   [kind "return", item]  (item <<>> is None)                            *)
(* together with the step that decided it (by).                            *)
(*   [kind "raise", exc]                                                   *)
(*   [kind "prompt", items] (_handle_multiple_manually is entered)         *)
(***************************************************************************)
Titles == {title_of(row) : row \in ShowRows \cup MovieRows}
\* title.items_with_same_name(self.search_trakt(self.name)), tabulated
same_name == [title \in Titles, found \in SearchResults |->
                items_with_same_name(title, found)]

search(kind, title, found) ==
  LET name == searcher_name(title)
      same == same_name[title, found]
      single_result == check_single_result(name, same.items)
      local == search_local(user_matched_table(kind), name, same.items)
  IN IF same.exc # "none"
       THEN [kind |-> "raise", exc |-> "Exception", by |-> "none"]
     ELSE IF single_result # <<>>
       THEN [kind |-> "return", item |-> single_result, by |-> "single"]
     ELSE IF Len(same.items) < 1
       THEN [kind |-> "return", item |-> <<>>, by |-> "none"]
     ELSE IF local.should_return
       THEN IF local.exc # "none"
              THEN [kind |-> "raise", exc |-> local.exc, by |-> "memo"]
              ELSE [kind |-> "return", item |-> local.item, by |-> "memo"]
       ELSE [kind |-> "prompt", items |-> same.items, by |-> "prompt"]

(***************************************************************************)
(* Processor.process_item (processor.py 37-112) as steps.  pc is           *)
(*   "stopped"   no run in progress                                        *)
(*   "next_row"  the caller's loop over the rows, between two rows         *)
(*   "returned"  process_item is over for the row in hand                  *)
(*   "sleep"     time.sleep(delay)                                         *)
(*   "search"    self._search: the catalog search call                     *)
(*   "prompt"    Searcher._handle_multiple_manually: input()               *)
(*   "process"   self._process up to and including the mutation call       *)
(*   "insert"    self._process after the mutation call returned            *)
(*   "cooldown"  time.sleep(60) in a handler                               *)
(***************************************************************************)
\* break, or return: process_item is over for this row
Break(how) ==
  /\ pc' = "returned"
  /\ outcome' = how
  /\ UNCHANGED error_streak

LoopHead_without_delay(streak, row) ==
  /\ error_streak' = streak
  /\ IF give_up(streak)
       THEN pc' = "returned" /\ outcome' = "Abandoned"
       ELSE IF ~should_continue(row)
         THEN pc' = "returned" /\ outcome' = "Suppressed"
         ELSE pc' = "search" /\ outcome' = "none"

\* the head of the while loop (processor.py 50-58) with error_streak = streak
LoopHead(streak, row) ==
  /\ error_streak' = streak
  /\ IF give_up(streak)
       THEN pc' = "returned" /\ outcome' = "Abandoned"
       ELSE IF ~should_continue(row)
         THEN pc' = "returned" /\ outcome' = "Suppressed"
         ELSE pc' = "sleep" /\ outcome' = "none"

Handle_without_cooldown(exc) ==
  /\ UNCHANGED unclassified
  /\ LoopHead(error_streak + 1, tv_time_item)

Handle_writes_anyway(exc) ==
  /\ pc' = "insert"
  /\ outcome' = "none"
  /\ UNCHANGED <<error_streak, unclassified>>

Handle_without_counting(exc) ==
  /\ unclassified' =
       (unclassified \/ exc \notin {"IndexError", "NotFoundException",
                                     "RateLimitException", "JSONDecodeError"})
  /\ CASE exc = "IndexError" ->
            IF trakt_item = Unbound
              THEN pc' = "stopped" /\ outcome' = "Propagated"
                   /\ UNCHANGED error_streak
              ELSE Break("Failed")
       [] exc = "NotFoundException" -> Break("Failed")
       [] exc \in {"RateLimitException", "JSONDecodeError"} ->
            pc' = "cooldown" /\ outcome' = "none" /\ UNCHANGED error_streak
       [] OTHER -> LoopHead(error_streak, tv_time_item)

\* the except clauses (processor.py 77-112) for an exception raised in the
\* try block.  _handle_index_error reads trakt_item: while that local is
\* unbound the handler itself raises, and the error leaves process_item.
Handle(exc) ==
  /\ unclassified' =
       (unclassified \/ exc \notin {"IndexError", "NotFoundException",
                                     "RateLimitException", "JSONDecodeError"})
  /\ CASE exc = "IndexError" ->
            IF trakt_item = Unbound
              THEN pc' = "stopped" /\ outcome' = "Propagated"
                   /\ UNCHANGED error_streak
              ELSE Break("Failed")
       [] exc = "NotFoundException" -> Break("Failed")
       [] exc \in {"RateLimitException", "JSONDecodeError"} ->
            pc' = "cooldown" /\ outcome' = "none" /\ UNCHANGED error_streak
       [] OTHER -> LoopHead(error_streak + 1, tv_time_item)

Searched_none_is_an_error(item) ==
  IF item = <<>>
    THEN LoopHead(error_streak + 1, tv_time_item) /\ UNCHANGED trakt_item
    ELSE /\ trakt_item' = item[1]
         /\ pc' = "process"
         /\ outcome' = "none"
         /\ UNCHANGED error_streak

\* self._search returned: None breaks, an item goes on to self._process
Searched(item) ==
  IF item = <<>>
    THEN Break("Unmatched") /\ UNCHANGED trakt_item
    ELSE /\ trakt_item' = item[1]
         /\ pc' = "process"
         /\ outcome' = "none"
         /\ UNCHANGED error_streak

\* the state before the first run: empty tables, no row in hand
Stopped ==
  /\ syncedEpisodesTable = EmptyBag
  /\ userMatchedShowsTable = EmptyBag
  /\ syncedMoviesTable = EmptyBag
  /\ userMatchedMoviesTable = EmptyBag
  /\ watched_list = {}
  /\ tv_time_item = NoRow
  /\ pc = "stopped"
  /\ error_streak = 0
  /\ trakt_item = Unbound
  /\ searcher_items = <<>>
  /\ outcome = "none"
  /\ key_at_start = FALSE
  /\ n_search = 0
  /\ unclassified = FALSE
  /\ mutations = <<>>
  /\ applied = EmptyBag
  /\ lost = EmptyBag
  /\ decided = {}
  /\ resolved_by = "none"

Init ==
  /\ Stopped
  /\ menu_selection \in {1, 2}
  /\ call = [op |-> "none"]
  /\ ret = [done |-> FALSE]

\* process_watched_shows / process_movies begin (TimeToTrakt.py 348-362,
\* 646-670): for movies the first pass collects the names of 'watch' rows
StartRun ==
  /\ pc = "stopped"
  /\ pc' = "next_row"
  /\ watched_list' \in (IF menu_selection = 2 THEN SUBSET MovieNames ELSE {{}})
  /\ tv_time_item' = NoRow
  /\ error_streak' = 0
  /\ trakt_item' = Unbound
  /\ searcher_items' = <<>>
  /\ outcome' = "none"
  /\ key_at_start' = FALSE
  /\ n_search' = 0
  /\ unclassified' = FALSE
  /\ mutations' = <<>>
  /\ resolved_by' = "none"
  /\ UNCHANGED <<tables, menu_selection, applied, lost, decided, pureVars>>

\* the caller hands the next row to process_item, which looks the row up in
\* the Ledger and either returns or enters the loop (processor.py 37-58)
ReadRow ==
  /\ pc = "next_row"
  /\ \E row \in (IF menu_selection = 1 THEN ShowRows ELSE MovieRows) :
       /\ row.kind = "movie" /\ row.activity_type = "watch"
            => row.name \in watched_list
       /\ tv_time_item' = row
       /\ key_at_start' = InLedger(LogicalKey(row))
       /\ IF get_synced_items(row) # 0
            THEN Break("Skipped")
            ELSE LoopHead(0, row)
  /\ trakt_item' = Unbound
  /\ n_search' = 0
  /\ unclassified' = FALSE
  /\ mutations' = <<>>
  /\ resolved_by' = "none"
  /\ UNCHANGED <<tables, menu_selection, watched_list, searcher_items,
                 applied, lost, decided, pureVars>>

\* the locals of process_item, and what was observed of the row, are gone
NoItem ==
  /\ tv_time_item' = NoRow
  /\ error_streak' = 0
  /\ trakt_item' = Unbound
  /\ searcher_items' = <<>>
  /\ key_at_start' = FALSE
  /\ n_search' = 0
  /\ unclassified' = FALSE
  /\ mutations' = <<>>
  /\ resolved_by' = "none"

\* process_item returns to the loop over the rows
Return ==
  /\ pc = "returned"
  /\ pc' = "next_row"
  /\ outcome' = "none"
  /\ NoItem
  /\ UNCHANGED <<tables, runVars, applied, lost, decided, pureVars>>

\* the rows are exhausted: the run ends
EndRun ==
  /\ pc = "next_row"
  /\ pc' = "stopped"
  /\ UNCHANGED <<tables, runVars, tv_time_item, error_streak, trakt_item,
                 searcher_items, obsVars, pureVars>>

\* time.sleep(delay) returns (processor.py 64)
Sleep ==
  /\ pc = "sleep"
  /\ pc' = "search"
  /\ UNCHANGED <<tables, runVars, tv_time_item, error_streak, trakt_item,
                 searcher_items, obsVars, pureVars>>

\* self._search: the catalog search raises (processor.py 66, searcher.py 169)
SearchRaises ==
  /\ pc = "search"
  /\ n_search' = n_search + 1
  /\ \E exc \in ExternalErrors : Handle(exc)
  /\ resolved_by' = "none"
  /\ UNCHANGED <<tables, runVars, tv_time_item, trakt_item, searcher_items,
                 key_at_start, mutations, applied, lost, decided, pureVars>>

\* self._search: the catalog search returns a list, and Searcher.search
\* runs up to its return or to the prompt (searcher.py 164-187)
SearchReturns ==
  /\ pc = "search"
  /\ n_search' = n_search + 1
  /\ \E found \in SearchResults :
       LET r == search(tv_time_item.kind, title_of(tv_time_item), found)
       IN /\ resolved_by' = r.by
          /\ CASE r.kind = "return" ->
                    Searched(r.item)
                    /\ UNCHANGED <<searcher_items, unclassified>>
               [] r.kind = "raise" ->
                    Handle(r.exc) /\ UNCHANGED <<trakt_item, searcher_items>>
               [] r.kind = "prompt" ->
                    /\ pc' = "prompt"
                    /\ searcher_items' = r.items
                    /\ UNCHANGED <<error_streak, trakt_item, outcome,
                                   unclassified>>
  /\ UNCHANGED <<tables, runVars, tv_time_item, key_at_start, mutations,
                 applied, lost, decided, pureVars>>

\* Searcher._handle_multiple_manually (searcher.py 213-249).  Input that is
\* neither SKIP nor a number logs an error and asks again: the state does
\* not change, so it is a stuttering step.
current_name == searcher_name(title_of(tv_time_item))

InsertUserMatched(kind, doc) ==
  IF kind = "show"
    THEN /\ userMatchedShowsTable' = insert(userMatchedShowsTable, doc)
         /\ UNCHANGED <<syncedEpisodesTable, syncedMoviesTable,
                        userMatchedMoviesTable>>
    ELSE /\ userMatchedMoviesTable' = insert(userMatchedMoviesTable, doc)
         /\ UNCHANGED <<syncedEpisodesTable, syncedMoviesTable,
                        userMatchedShowsTable>>

\* What the human types is [skip, number]: SKIP, or a number.  The result
\* is the exception or the item returned (<<>> is None), and the documents
\* inserted into the user-matched table.
selected_index(number) == number - 1

handle_multiple_manually(items, name, answer) ==
  IF answer.skip
    THEN [exc |-> "none", item |-> <<>>,
          docs |-> <<[Name |-> name, UserSelectedIndex |-> 0, Skip |-> TRUE]>>]
    ELSE LET index_selected == selected_index(answer.number)
         IN IF ~IndexOk(items, index_selected)
              THEN [exc |-> "IndexError", item |-> <<>>, docs |-> <<>>]
              ELSE [exc |-> "none", item |-> <<At(items, index_selected)>>,
                    docs |-> <<[Name |-> name,
                                UserSelectedIndex |-> index_selected,
                                Skip |-> FALSE]>>]

Answers ==
  {[skip |-> TRUE, number |-> 0]}
  \cup {[skip |-> FALSE, number |-> n] : n \in PromptNumbers}

\* the human answers SKIP
PromptSkip ==
  /\ pc = "prompt"
  /\ \E answer \in Answers :
       LET r == handle_multiple_manually(searcher_items, current_name, answer)
       IN /\ answer.skip
          /\ InsertUserMatched(tv_time_item.kind, r.docs[1])
          /\ Searched(r.item)
  /\ searcher_items' = <<>>
  /\ UNCHANGED <<runVars, tv_time_item, key_at_start, n_search, unclassified,
                 mutations, applied, lost, decided, resolved_by, pureVars>>

\* the human answers a number inside the list (Python's negative indices
\* included): the item is selected and the decision inserted
PromptSelects ==
  /\ pc = "prompt"
  /\ \E answer \in Answers :
       LET r == handle_multiple_manually(searcher_items, current_name, answer)
       IN /\ ~answer.skip
          /\ r.exc = "none"
          /\ InsertUserMatched(tv_time_item.kind, r.docs[1])
          /\ Searched(r.item)
  /\ searcher_items' = <<>>
  /\ UNCHANGED <<runVars, tv_time_item, key_at_start, n_search, unclassified,
                 mutations, applied, lost, decided, resolved_by, pureVars>>

\* the human answers a number outside the list: items[index] raises
\* IndexError before anything is inserted (searcher.py 239)
PromptOutOfRange ==
  /\ pc = "prompt"
  /\ \E answer \in Answers :
       LET r == handle_multiple_manually(searcher_items, current_name, answer)
       IN /\ r.exc # "none"
          /\ Handle(r.exc)
  /\ searcher_items' = <<>>
  /\ UNCHANGED <<tables, runVars, tv_time_item, trakt_item, key_at_start,
                 n_search, mutations, applied, lost, decided,
                 resolved_by, pureVars>>

(***************************************************************************)
(* TVShowProcessor._process / MovieProcessor._process up to the mutation   *)
(* call (processor.py 144-153, 202-219): what the call is, or the          *)
(* IndexError of the season/episode lookup, or nothing to do.              *)
(***************************************************************************)
episode_index_no_offset(row) == row.episode_number

episode_index(row) == row.episode_number - 1

process_plan(row, item) ==
  IF row.kind = "show"
    THEN LET season_numbers == [k \in 1..Len(item.seasons) |-> item.seasons[k].season]
             parsed == parse_season_number(row.season_number, season_numbers)
         IN IF parsed.exc # "none" THEN [kind |-> "raise", exc |-> parsed.exc]
            ELSE IF ~IndexOk(item.seasons, parsed.val)
              THEN [kind |-> "raise", exc |-> "IndexError"]
            ELSE LET season == At(item.seasons, parsed.val)
                     episodes == [k \in 1..season.episodes |-> k - 1]
                 IN IF ~IndexOk(episodes, episode_index(row))
                      THEN [kind |-> "raise", exc |-> "IndexError"]
                      ELSE [kind |-> "call", method |-> "mark_as_seen",
                            season |-> parsed.val,
                            episode |-> At(episodes, episode_index(row))]
    ELSE IF row.activity_type = "watch"
      THEN [kind |-> "call", method |-> "mark_as_seen",
            season |-> None, episode |-> None]
    ELSE IF CountRows(syncedMoviesTable,
                      LAMBDA r : r.movie_name = row.name /\ r.type = "watchlist") = 0
      THEN [kind |-> "call", method |-> "add_to_watchlist",
            season |-> None, episode |-> None]
      ELSE [kind |-> "nothing"]

\* the season or the episode does not exist in the selected show
ProcessIndexError ==
  /\ pc = "process"
  /\ process_plan(tv_time_item, trakt_item).kind = "raise"
  /\ Handle(process_plan(tv_time_item, trakt_item).exc)
  /\ UNCHANGED <<tables, runVars, tv_time_item, trakt_item, searcher_items,
                 key_at_start, n_search, mutations, applied, lost, decided,
                 resolved_by, pureVars>>

\* a watchlist movie that is already in the synced watchlist rows: only a
\* warning (processor.py 226-227), then error_streak = 0 and break
ProcessAlreadyInWatchlist ==
  /\ pc = "process"
  /\ process_plan(tv_time_item, trakt_item).kind = "nothing"
  /\ pc' = "returned"
  /\ outcome' = "AlreadyInWatchlist"
  /\ error_streak' = 0
  /\ UNCHANGED <<tables, runVars, tv_time_item, trakt_item, searcher_items,
                 key_at_start, n_search, unclassified, mutations, applied, lost,
                 decided, resolved_by, pureVars>>

\* mark_as_seen / add_to_watchlist returns: the mutation is applied
MutationReturns ==
  /\ pc = "process"
  /\ LET plan == process_plan(tv_time_item, trakt_item)
     IN /\ plan.kind = "call"
        /\ mutations' = Append(mutations,
             [method |-> plan.method, on |-> trakt_item.id,
              season |-> plan.season, episode |-> plan.episode])
  /\ applied' = insert(applied, LogicalKey(tv_time_item))
  /\ pc' = "insert"
  /\ UNCHANGED <<tables, runVars, tv_time_item, error_streak, trakt_item,
                 searcher_items, outcome, key_at_start, n_search,
                 unclassified, lost, decided, resolved_by, pureVars>>

\* mark_as_seen / add_to_watchlist raises: nothing is applied
MutationRaises ==
  /\ pc = "process"
  /\ process_plan(tv_time_item, trakt_item).kind = "call"
  /\ \E exc \in ExternalErrors : Handle(exc)
  /\ UNCHANGED <<tables, runVars, tv_time_item, trakt_item, searcher_items,
                 key_at_start, n_search, mutations, applied, lost, decided,
                 resolved_by, pureVars>>

synced_doc_always_watched(row) ==
  IF row.kind = "show" THEN [episodeId |-> row.episode_id]
  ELSE [movie_name |-> row.name, type |-> "watched"]

\* the Ledger write after the mutation call (processor.py 156, 214, 222),
\* then error_streak = 0 and break (processor.py 72-73)
synced_doc(row) ==
  IF row.kind = "show" THEN [episodeId |-> row.episode_id]
  ELSE [movie_name |-> row.name, type |-> LedgerType(row.activity_type)]

Insert ==
  /\ pc = "insert"
  /\ IF tv_time_item.kind = "show"
       THEN /\ syncedEpisodesTable' = insert(syncedEpisodesTable, synced_doc(tv_time_item))
            /\ UNCHANGED syncedMoviesTable
       ELSE /\ syncedMoviesTable' = insert(syncedMoviesTable, synced_doc(tv_time_item))
            /\ UNCHANGED syncedEpisodesTable
  /\ pc' = "returned"
  /\ outcome' = "Committed"
  /\ error_streak' = 0
  /\ UNCHANGED <<userMatchedShowsTable, userMatchedMoviesTable, runVars,
                 tv_time_item, trakt_item, searcher_items, key_at_start,
                 n_search, unclassified, mutations, applied, lost, decided,
                 resolved_by, pureVars>>

\* time.sleep(60) returns, error_streak += 1, and the loop starts over
\* (processor.py 91-92, 102-103)
Cooldown ==
  /\ pc = "cooldown"
  /\ LoopHead(error_streak + 1, tv_time_item)
  /\ UNCHANGED <<tables, runVars, tv_time_item, trakt_item, searcher_items,
                 key_at_start, n_search, unclassified, mutations, applied, lost,
                 decided, resolved_by, pureVars>>

\* What a KeyboardInterrupt raised at a point of process_item comes to:
\* "exit" (sys.exit, or the interrupt leaving process_item from inside a
\* handler), or "count" (error_streak += 1, as for an unknown error).
handle_interrupt_as_error(at) == "count"

handle_interrupt(at) == "exit"

\* CTRL + C (sys.exit, processor.py 105-106, searcher.py 224-225) or the
\* death of the process while a row is in hand
Interrupt ==
  /\ pc \in {"sleep", "search", "prompt", "process", "cooldown"}
  /\ outcome' = "Cancelled"
  /\ IF handle_interrupt(pc) = "exit"
       THEN /\ pc' = "stopped"
            /\ NoItem
       ELSE /\ error_streak' = error_streak + 1
            /\ pc' = IF give_up(error_streak + 1) THEN "returned" ELSE "sleep"
            /\ unclassified' = TRUE
            /\ UNCHANGED <<tv_time_item, trakt_item, searcher_items,
                           key_at_start, n_search, mutations, resolved_by>>
  /\ UNCHANGED <<tables, runVars, applied, lost, decided, pureVars>>

\* the same between the mutation call and the Ledger write
InterruptBeforeInsert ==
  /\ pc = "insert"
  /\ BagCardinality(lost) < MaxLost
  /\ lost' = insert(lost, LogicalKey(tv_time_item))
  /\ pc' = "stopped"
  /\ outcome' = "Cancelled"
  /\ NoItem
  /\ UNCHANGED <<tables, runVars, applied, decided, pureVars>>

Next ==
  \/ StartRun
  \/ ReadRow
  \/ Return
  \/ EndRun
  \/ Sleep
  \/ SearchRaises
  \/ SearchReturns
  \/ PromptSkip
  \/ PromptSelects
  \/ PromptOutOfRange
  \/ ProcessIndexError
  \/ ProcessAlreadyInWatchlist
  \/ MutationReturns
  \/ MutationRaises
  \/ Insert
  \/ Cooldown
  \/ Interrupt

Spec == Init /\ [][Next]_vars

\* the same, with runs that may also die between a mutation call and its
\* Ledger write
NextCrash ==
  \/ Next
  \/ InterruptBeforeInsert

SpecCrash == Init /\ [][NextCrash]_vars


(***************************************************************************)
(* Single calls of the pure functions.  Nothing of the process is running: *)
(* call holds the arguments, ret the result once the function has returned.*)
(***************************************************************************)
MaxRawLen == 4

MatchAlphabet == {"a", "b", " "}
TitleAlphabet == {"a", " ", "(", ")", "1", "_"}

MatchesCalls ==
  [op : {"matches", "check_title_name_match"},
   name : StringsUpTo(MatchAlphabet, MaxNameLen),
   other : StringsUpTo(MatchAlphabet, MaxTitleLen)]

TitleCalls == [op : {"Title"}, title : StringsUpTo(TitleAlphabet, MaxRawLen)]

SeasonCalls ==
  [op : {"parse_season_number"}, season_number : 0..MaxSeason,
   seasons : UNION {[1..k -> 0..MaxSeason] : k \in 0..MaxCatalogSeasons}]

\* the raw names and the years passed to Title(), the lists the catalog
\* returned
NameA0 == <<"a", " ", "(", "0", ")">>
FilterCalls ==
  [op : {"items_with_same_name"}, raw : RawNames \cup {NameA0},
   year : {None, 1, 2}, found : SearchResults]
  \cup [op : {"get_show_by_name"}, raw : RawNames \cup {NameA0},
        year : {None}, found : SearchResults]

InitPure(calls) ==
  /\ Stopped
  /\ menu_selection = 1
  /\ call \in calls
  /\ ret = [done |-> FALSE]

Returns(val) ==
  /\ ~ret.done
  /\ ret' = [done |-> TRUE, val |-> val]
  /\ UNCHANGED <<call, procVars>>

\* Title.matches (searcher.py 72-92)
CallMatches ==
  /\ call.op = "matches"
  /\ Returns(matches(call.name, call.other))

\* check_title_name_match (TimeToTrakt.py 141-163)
CallCheckTitleNameMatch ==
  /\ call.op = "check_title_name_match"
  /\ Returns(check_title_name_match(call.name, call.other))

InitMatches == InitPure(MatchesCalls)
NextMatches ==
  \/ CallMatches
  \/ CallCheckTitleNameMatch
SpecMatches == InitMatches /\ [][NextMatches]_vars

\* Title(title) (searcher.py 27-47)
CallTitle ==
  /\ call.op = "Title"
  /\ Returns(Title(call.title, None))

InitTitle == InitPure(TitleCalls)
NextTitle ==
  \/ CallTitle
SpecTitle == InitTitle /\ [][NextTitle]_vars

\* TVTimeTVShow.parse_season_number (searcher.py 113-137)
CallParseSeasonNumber ==
  /\ call.op = "parse_season_number"
  /\ Returns(parse_season_number(call.season_number, call.seasons))

InitSeason == InitPure(SeasonCalls)
NextSeason ==
  \/ CallParseSeasonNumber
SpecSeason == InitSeason /\ [][NextSeason]_vars

\* Title.items_with_same_name (searcher.py 49-70)
CallItemsWithSameName ==
  /\ call.op = "items_with_same_name"
  /\ Returns(items_with_same_name(Title(call.raw, call.year), call.found))

\* the filter of get_show_by_name (TimeToTrakt.py 190-207)
CallGetShowByName ==
  /\ call.op = "get_show_by_name"
  /\ Returns(get_show_by_name_filter(call.raw, call.found))

InitFilter == InitPure(FilterCalls)
NextFilter ==
  \/ CallItemsWithSameName
  \/ CallGetShowByName
SpecFilter == InitFilter /\ [][NextFilter]_vars


(***************************************************************************)
(* Properties of the pure functions.                                       *)
(***************************************************************************)
\* the whitespace-delimited tokens of s, as the places <<i, j>> they occupy
TokenSpans(s) ==
  {sp \in (1..Len(s)) \X (1..Len(s)) :
     /\ sp[1] <= sp[2]
     /\ \A k \in sp[1]..sp[2] : s[k] # " "
     /\ (sp[1] = 1 \/ s[sp[1] - 1] = " ")
     /\ (sp[2] = Len(s) \/ s[sp[2] + 1] = " ")}
\* how many tokens of name occur in other as a substring
TokensFound(name, other) ==
  Cardinality({sp \in TokenSpans(name) : In(SubSeq(name, sp[1], sp[2]), other)})
MoreThanHalf(name, other) ==
  /\ Cardinality(TokenSpans(other)) > 0
  /\ 2 * TokensFound(name, other) > Cardinality(TokenSpans(other))

SeasonIndexOf(season_number, seasons) ==
  IF seasons[1] = 0 THEN season_number
  ELSE IF season_number # 0 THEN season_number - 1
  ELSE 0

\* C9, as stated: over every season list, the index is s under a specials
\* season, s - 1 without one and s # 0, 0 without one and s = 0, and
\* s = 0 never raises.
C9_SeasonIndexOverEveryList ==
  ret.done =>
    /\ call.seasons # <<>> =>
         ret.val.val = SeasonIndexOf(call.season_number, call.seasons)
    /\ call.season_number = 0 => ret.val.exc = "none"

\* C9, amended: over every season list with a first season the call returns
\* that index and does not raise; over the empty list it raises IndexError.
C9_SeasonIndexOverNonEmptyList ==
  ret.done =>
    IF call.seasons # <<>>
      THEN /\ ret.val.exc = "none"
           /\ ret.val.val = SeasonIndexOf(call.season_number, call.seasons)
           /\ ret.val.val >= 0
      ELSE ret.val.exc = "IndexError"

\* C9 happens: season 0 of the export over a catalog without a specials
\* season resolves to index 0.
C9_SeasonZeroWithoutSpecials ==
  /\ ret.done
  /\ call.seasons # <<>>
  /\ call.seasons[1] # 0
  /\ call.season_number = 0
  /\ ret.val = [exc |-> "none", val |-> 0]

\* the parenthesized groups of one or more word characters in raw
Groups(raw) ==
  {g \in (1..Len(raw)) \X (1..Len(raw)) :
     /\ g[1] + 1 < g[2]
     /\ raw[g[1]] = "(" /\ raw[g[2]] = ")"
     /\ \A k \in (g[1] + 1)..(g[2] - 1) : IsWordChar(raw[k])}
FirstGroup(raw) == CHOOSE g \in Groups(raw) : \A h \in Groups(raw) : g[1] <= h[1]
FirstParen(raw) ==
  CHOOSE i \in 1..Len(raw) : raw[i] = "(" /\ \A k \in 1..(i - 1) : raw[k] # "("
\* the "(" of a group that ends raw and whose contents parse as an integer
TrailingYear(raw) ==
  {i \in 1..Len(raw) :
     /\ raw[i] = "(" /\ raw[Len(raw)] = ")"
     /\ IntParses(SubSeq(raw, i + 1, Len(raw) - 1))}

\* C10, as stated: Title(raw) has a year iff raw ends with a parenthesized
\* group that parses as an integer; then the normalized form is the trimmed
\* text before the group, else year is none and the normalized form is raw.
C10_YearIffTrailingGroup ==
  ret.done =>
    LET raw == call.title
    IN IF TrailingYear(raw) # {}
         THEN LET i == CHOOSE m \in TrailingYear(raw) : TRUE
              IN /\ ret.val.year = int(SubSeq(raw, i + 1, Len(raw) - 1))
                 /\ ret.val.without_year = strip(SubSeq(raw, 1, i - 1))
         ELSE ret.val.year = None /\ ret.val.without_year = raw

\* C10, amended: Title(raw) has a year iff raw contains a parenthesized
\* group of word characters and the contents of the first such group parse
\* as an integer; then year is that integer and the normalized form is the
\* trimmed text before the first "(" of raw; in every other case year is
\* none and the normalized form equals raw.  name is always raw.
C10_YearIffFirstGroupParses ==
  ret.done =>
    LET raw == call.title
        g == FirstGroup(raw)
    IN /\ ret.val.name = raw
       /\ IF Groups(raw) # {} /\ IntParses(SubSeq(raw, g[1] + 1, g[2] - 1))
            THEN /\ ret.val.year = int(SubSeq(raw, g[1] + 1, g[2] - 1))
                 /\ ret.val.without_year =
                      strip(SubSeq(raw, 1, FirstParen(raw) - 1))
            ELSE ret.val.year = None /\ ret.val.without_year = raw

\* C10 happens: a year taken from a group that does not end raw.
C10_YearFromGroupNotAtEnd ==
  /\ ret.done
  /\ ret.val.year # None
  /\ call.title[Len(call.title)] # ")"

\* C7: when the Title carries a year, the first candidate whose title equals
\* the normalized name and whose year equals Title.year makes the result of
\* Title.items_with_same_name exactly that candidate.
C7_ExactMatchShortCircuits ==
  (ret.done /\ call.op = "items_with_same_name") =>
    LET title == Title(call.raw, call.year)
        exact == {k \in 1..Len(call.found) :
                    /\ call.found[k].title = title.without_year
                    /\ call.found[k].year = title.year}
    IN (title.year # None /\ exact # {}) =>
         ret.val = [exc |-> "none",
                    items |-> <<call.found[CHOOSE k \in exact :
                                             \A n \in exact : k <= n]>>]


(***************************************************************************)
(* Searcher.search on its own (searcher.py 164-249): lookups of any title  *)
(* against any list the catalog returns, over the user-matched table the   *)
(* earlier lookups left.  call is the lookup, ret its result, decided the  *)
(* decisions made at the prompt with the list each was made on.            *)
(***************************************************************************)
searcher_kind == IF menu_selection = 1 THEN "show" ELSE "movie"

TitlesOf(kind) ==
  {title_of(row) : row \in (IF kind = "show" THEN ShowRows ELSE MovieRows)}

\* Searcher.search up to its return or to the prompt
SearchCall ==
  /\ pc = "stopped"
  /\ \E title \in TitlesOf(searcher_kind), found \in SearchResults :
       LET r == search(searcher_kind, title, found)
       IN /\ call' = [op |-> "search", title |-> title, found |-> found]
          /\ CASE r.kind = "return" ->
                    /\ ret' = [done |-> TRUE, prompted |-> FALSE,
                               val |-> [exc |-> "none", item |-> r.item]]
                    /\ UNCHANGED <<pc, searcher_items>>
               [] r.kind = "raise" ->
                    /\ ret' = [done |-> TRUE, prompted |-> FALSE,
                               val |-> [exc |-> r.exc, item |-> <<>>]]
                    /\ UNCHANGED <<pc, searcher_items>>
               [] r.kind = "prompt" ->
                    /\ ret' = [done |-> FALSE]
                    /\ pc' = "prompt"
                    /\ searcher_items' = r.items
  /\ UNCHANGED <<tables, runVars, tv_time_item, error_streak, trakt_item,
                 obsVars>>

\* Searcher._handle_multiple_manually: the human answers
SearchAnswer ==
  /\ pc = "prompt"
  /\ call.op = "search"
  /\ \E answer \in Answers :
       LET name == searcher_name(call.title)
           r == handle_multiple_manually(searcher_items, name, answer)
       IN /\ IF r.docs # <<>>
               THEN /\ InsertUserMatched(searcher_kind, r.docs[1])
                    /\ decided' = decided \cup
                         {[name |-> name, items |-> searcher_items,
                           doc |-> r.docs[1], item |-> r.item]}
               ELSE UNCHANGED <<tables, decided>>
          /\ ret' = [done |-> TRUE, prompted |-> TRUE,
                     val |-> [exc |-> r.exc, item |-> r.item]]
  /\ pc' = "stopped"
  /\ searcher_items' = <<>>
  /\ UNCHANGED <<runVars, tv_time_item, error_streak, trakt_item, outcome,
                 key_at_start, n_search, unclassified, mutations, applied,
                 lost, resolved_by, call>>

NextSearcher ==
  \/ SearchCall
  \/ SearchAnswer

SpecSearcher == Init /\ [][NextSearcher]_vars

(***************************************************************************)
(* Properties of the searcher.                                             *)
(***************************************************************************)
\* the lookup in call is of the name, and on the list, of decision d
SameLookup(d) ==
  /\ call.op = "search"
  /\ searcher_name(call.title) = d.name
  /\ same_name[call.title, call.found].items = d.items

\* C5: a candidate chosen at the prompt, among two or more, is persisted as
\* one decision row, and every lookup of the same normalized name on the
\* same list of candidates afterwards does not prompt and returns the
\* candidate that was chosen.
C5_MemoReuse ==
  \A d \in decided :
    ~d.doc.Skip =>
      /\ Len(d.items) >= 2
      /\ CountRows(user_matched_table(searcher_kind),
                   LAMBDA r : r.Name = d.name) = 1
      /\ CountRows(user_matched_table(searcher_kind), LAMBDA r : r = d.doc) = 1
      /\ SameLookup(d) =>
           /\ pc # "prompt"
           /\ ret.done
           /\ ret.val = [exc |-> "none", item |-> d.item]

\* C5 happens: a later lookup, answered without the prompt, returns the
\* second candidate of two different ones, which the human chose.
C5_LaterLookupReturnsChoice ==
  \E d \in decided :
    /\ ~d.doc.Skip
    /\ d.doc.UserSelectedIndex = 1
    /\ d.items[1] # d.items[2]
    /\ SameLookup(d)
    /\ ret.done
    /\ ~ret.prompted
    /\ ret.val.item = <<d.items[2]>>


(***************************************************************************)
(* Properties of process_item over runs.                                   *)
(***************************************************************************)
RowInHand == tv_time_item.kind # "none"

\* C1: a row whose logical key is already in the Ledger causes no catalog
\* search and no mutation call.
C1_KeyInLedgerMeansNoCall ==
  (RowInHand /\ key_at_start) => (n_search = 0 /\ mutations = <<>>)

\* C2, as stated: over any sequence of runs, however they end, the mutation
\* call is successfully applied at most once per logical key.
C2_AppliedAtMostOnce ==
  \A key \in AllKeys : CopiesIn(key, applied) <= 1

\* C2, amended: the mutation call is successfully applied at most once per
\* logical key, plus once for each run that ended between a successful call
\* for the key and its Ledger write.
C2_AppliedOncePerLostWrite ==
  \A key \in AllKeys : CopiesIn(key, applied) <= 1 + CopiesIn(key, lost)

\* C2 happens: a run ended between the call and the Ledger write, a later
\* run applied the call again and recorded the key.
C2_AppliedAgainAfterLostWrite ==
  \E key \in AllKeys :
    /\ CopiesIn(key, lost) = 1
    /\ CopiesIn(key, applied) = 2
    /\ InLedger(key)

\* C3: a row whose every attempt fails with a rate limit or a JSON decode
\* error is attempted exactly 11 times and then abandoned: process_item
\* returns, nothing was applied and the Ledger has no new entry for the row;
\* no row is ever searched for a 12th time.
C3_AbandonedAfterElevenAttempts ==
  /\ n_search <= StreakLimit + 1
  /\ (outcome = "Abandoned" /\ ~unclassified) =>
       /\ n_search = StreakLimit + 1
       /\ error_streak = StreakLimit + 1
       /\ pc = "returned"
       /\ mutations = <<>>
       /\ InLedger(LogicalKey(tv_time_item)) = key_at_start

\* C3 happens: a row is abandoned after 11 searches and only retryable
\* failures.
C3_AbandonedByRetryableFailures ==
  /\ outcome = "Abandoned"
  /\ ~unclassified
  /\ n_search = StreakLimit + 1
  /\ ~key_at_start

\* C4: an episode row that is committed had mark_as_seen called exactly once,
\* on the episode at (resolved season index, episode_number - 1) of the
\* candidate; the Ledger holds one row per applied episode call, so it gained
\* exactly the row's episodeId; and an episode row whose key is in the Ledger
\* returns at once without a search or a mutation call.
C4_EpisodeCommit ==
  /\ (RowInHand /\ tv_time_item.kind = "show" /\ outcome = "Committed"
        /\ tv_time_item.episode_number >= 1) =>
       /\ mutations =
            <<[method |-> "mark_as_seen", on |-> trakt_item.id,
               season |-> SeasonIndexOf(tv_time_item.season_number,
                            [k \in 1..Len(trakt_item.seasons) |->
                               trakt_item.seasons[k].season]),
               episode |-> tv_time_item.episode_number - 1]>>
       /\ CountRows(syncedEpisodesTable,
                    LAMBDA r : r.episodeId = tv_time_item.episode_id) = 1
  /\ pc # "insert" =>
       \A id \in EpisodeIds :
         CountRows(syncedEpisodesTable, LAMBDA r : r.episodeId = id)
           = CopiesIn(EpisodeKey(id), applied)
  /\ (RowInHand /\ tv_time_item.kind = "show" /\ key_at_start) =>
       /\ pc = "returned"
       /\ outcome = "Skipped"
       /\ n_search = 0
       /\ mutations = <<>>

\* C4 happens: an episode row is committed after one search that resolved to
\* the single plausible candidate.
C4_SingleCandidateCommitted ==
  /\ RowInHand
  /\ tv_time_item.kind = "show"
  /\ tv_time_item.episode_number >= 1
  /\ outcome = "Committed"
  /\ ~key_at_start
  /\ resolved_by = "single"
  /\ n_search = 1
  /\ Len(mutations) = 1

\* the user-matched table holds a SKIP decision for the name of the row in
\* hand, made before this row's search
SkippedBefore ==
  /\ RowInHand
  /\ resolved_by # "prompt"
  /\ CountRows(user_matched_table(tv_time_item.kind),
               LAMBDA r : r.Name = current_name /\ r.Skip) = 1

FilteredOf(c) == same_name[c.title, c.found].items

\* C11: a lookup whose filtered list is empty returns None without raising,
\* and one whose filtered list has exactly one candidate returns that
\* candidate; neither prompts nor writes the user-matched tables, whatever
\* decision the tables hold for the name.
C11_ZeroOrOneCandidate ==
  [][(call'.op = "search" /\ Len(FilteredOf(call')) <= 1) =>
       /\ tables' = tables
       /\ pc' # "prompt"
       /\ ret' = [done |-> TRUE, prompted |-> FALSE,
                  val |-> [exc |-> "none", item |-> FilteredOf(call')]]]_vars

\* C11 happens: while the table holds a SKIP decision for the name, a lookup
\* with a single candidate, not titled like the name, returns it.
C11_SingleCandidateDespiteSkip ==
  /\ call.op = "search"
  /\ Len(FilteredOf(call)) = 1
  /\ FilteredOf(call)[1].title # searcher_name(call.title)
  /\ CountRows(user_matched_table(searcher_kind),
               LAMBDA r : r.Name = searcher_name(call.title) /\ r.Skip) = 1
  /\ ret.done
  /\ ret.val = [exc |-> "none", item |-> FilteredOf(call)]


\* C12: whatever the human types at the prompt, the answer is persisted
\* before the lookup returns, so a name that was prompted for has its
\* decision row and no later lookup of it prompts again.
C12_AnswerPersistedBeforeReturn ==
  (call.op = "search" /\ ret.done /\ ret.prompted) =>
    CountRows(user_matched_table(searcher_kind),
              LAMBDA r : r.Name = searcher_name(call.title)) = 1


\* C13: process_item returns normally for every row, so a run stops only
\* when its rows are exhausted or when the user cancels it.
C13_RunStopsOnlyAtEndOrCancel ==
  pc = "stopped" => outcome \in {"none", "Cancelled"}


\* C14: an interrupt while a row is in hand ends the run at once: it writes
\* nothing to the Ledger or the user-matched tables, applies nothing and is
\* not counted in error_streak; and once the run has ended nothing is
\* searched, applied or written until a new run starts.
C14_CancellationEndsTheRun ==
  [][/\ (outcome' = "Cancelled" /\ pc # "stopped") =>
          /\ pc' = "stopped"
          /\ tables' = tables
          /\ applied' = applied
          /\ error_streak' # error_streak + 1
     /\ pc = "stopped" =>
          /\ tables' = tables
          /\ applied' = applied
          /\ n_search' = 0
          /\ pc' \in {"stopped", "next_row"}]_vars

\* C14 happens: a run was cancelled after it had written a Ledger entry and
\* a decision, and both are still there.
C14_CancelledWithProgressKept ==
  /\ pc = "stopped"
  /\ outcome = "Cancelled"
  /\ \E key \in AllKeys : InLedger(key) /\ CopiesIn(key, applied) = 1
  /\ BagCardinality(user_matched_table(searcher_kind)) = 1


\* the number of Ledger rows under a logical key
LedgerCount(key) ==
  IF key.kind = "episode"
    THEN CountRows(syncedEpisodesTable, LAMBDA r : r.episodeId = key.id)
    ELSE CountRows(syncedMoviesTable,
                   LAMBDA r : r.movie_name = key.name /\ r.type = key.type)

LedgerTables == <<syncedEpisodesTable, syncedMoviesTable>>

\* C15: the Ledger never holds more rows under a key than mutation calls
\* that returned for that key; a Ledger row is written only right after the
\* mutation call of the row in hand returned, one row under that row's key;
\* a row that ends Skipped, Unmatched, Failed, Suppressed or Abandoned, and a
\* mutation call that raises, write nothing to the Ledger.
C15_LedgerWriteFollowsMutation ==
  [][/\ \A key \in AllKeys : LedgerCount(key)' <= CopiesIn(key, applied')
     /\ LedgerTables' # LedgerTables =>
          /\ pc = "insert"
          /\ mutations # <<>>
          /\ outcome' = "Committed"
          /\ \A key \in AllKeys :
               LedgerCount(key)' =
                 LedgerCount(key) + (IF key = LogicalKey(tv_time_item) THEN 1 ELSE 0)
     /\ outcome' \in {"Skipped", "Unmatched", "Failed", "Suppressed", "Abandoned"}
          => LedgerTables' = LedgerTables
     /\ (pc = "process" /\ pc' # "insert") =>
          (LedgerTables' = LedgerTables /\ applied' = applied)]_vars

\* C15 happens: a row was committed after an unknown error was counted for
\* it, and the Ledger holds exactly one row under its key.
C15_CommittedAfterFailedAttempt ==
  /\ RowInHand
  /\ outcome = "Committed"
  /\ unclassified
  /\ Len(mutations) = 1
  /\ LedgerCount(LogicalKey(tv_time_item)) = 1
  /\ CopiesIn(LogicalKey(tv_time_item), applied) = 1


\* every row of the table before the step is in the table after the step,
\* as many times
Keeps(before, after) ==
  \A r \in BagToSet(before) : CopiesIn(r, after) >= CopiesIn(r, before)

\* C16: no step removes or changes a row of the synced-episodes or the
\* synced-movies table; the tables only gain rows.
C16_LedgerAppendOnly ==
  [][/\ Keeps(syncedEpisodesTable, syncedEpisodesTable')
     /\ Keeps(syncedMoviesTable, syncedMoviesTable')]_vars

\* C16 happens: a second row has been written to a Ledger table that already
\* held one.
C16_SecondLedgerRowWritten ==
  /\ outcome = "Committed"
  /\ \/ BagCardinality(syncedEpisodesTable) = 2
     \/ BagCardinality(syncedMoviesTable) = 2


\* C17: a 'watchlist' movie row is kept from add_to_watchlist only by a
\* 'watched' Ledger row of the same movie name: a row that process_item
\* drops at _should_continue has such a Ledger row.
C17_SuppressedOnlyByWatchedLedgerRow ==
  (RowInHand /\ tv_time_item.kind = "movie"
     /\ tv_time_item.activity_type = "watchlist" /\ outcome = "Suppressed") =>
    InLedger(MovieKey(tv_time_item.name, "watched"))


\* C18: a 'watchlist' movie row whose name has a 'watched' Ledger row, or is
\* the name of a 'watch' row of the export, has returned from process_item
\* as Skipped or Suppressed with no search and no mutation call made for it,
\* so without add_to_watchlist and without the Ledger write that follows it.
C18_NoRedundantWatchlistWrite ==
  (RowInHand /\ tv_time_item.kind = "movie"
     /\ tv_time_item.activity_type = "watchlist"
     /\ \/ tv_time_item.name \in watched_list
        \/ InLedger(MovieKey(tv_time_item.name, "watched"))) =>
    /\ pc = "returned"
    /\ outcome \in {"Skipped", "Suppressed"}
    /\ n_search = 0
    /\ mutations = <<>>

\* C18 happens: a 'watchlist' row is suppressed by a 'watch' row of the
\* export that has not been committed.
C18_SuppressedByUncommittedWatchRow ==
  /\ RowInHand
  /\ tv_time_item.kind = "movie"
  /\ tv_time_item.activity_type = "watchlist"
  /\ tv_time_item.name \in watched_list
  /\ ~InLedger(MovieKey(tv_time_item.name, "watched"))
  /\ outcome = "Suppressed"


\* the mutation call the activity type of a movie row asks for
MethodOf(activity_type) ==
  IF activity_type = "watch" THEN "mark_as_seen" ELSE "add_to_watchlist"

MovieKeys == {MovieKey(n, t) : n \in MovieNames, t \in {"watched", "watchlist"}}

\* C19: for a movie row at most one mutation call is made, and it is
\* mark_as_seen for 'watch' and add_to_watchlist for 'watchlist'; a resolved
\* 'watchlist' row without a (name, watchlist) Ledger row is about to call
\* add_to_watchlist and a resolved 'watch' row mark_as_seen; a committed row
\* left one Ledger row under (name, watched) resp. (name, watchlist); and the
\* Ledger holds under each (name, type) as many rows as calls of that type's
\* method returned for the name, so no row of the other type is written.
C19_MovieActionMatchesActivity ==
  /\ (RowInHand /\ tv_time_item.kind = "movie") =>
       /\ Len(mutations) <= 1
       /\ \A i \in 1..Len(mutations) :
            mutations[i] = [method |-> MethodOf(tv_time_item.activity_type),
                            on |-> trakt_item.id,
                            season |-> None, episode |-> None]
  /\ (RowInHand /\ tv_time_item.kind = "movie" /\ pc = "process"
        /\ ~InLedger(LogicalKey(tv_time_item))) =>
       /\ process_plan(tv_time_item, trakt_item).kind = "call"
       /\ process_plan(tv_time_item, trakt_item).method
            = MethodOf(tv_time_item.activity_type)
  /\ (RowInHand /\ tv_time_item.kind = "movie" /\ outcome = "Committed") =>
       /\ Len(mutations) = 1
       /\ LedgerCount(MovieKey(tv_time_item.name,
                               IF tv_time_item.activity_type = "watch"
                                 THEN "watched" ELSE "watchlist")) = 1
  /\ pc # "insert" =>
       \A key \in MovieKeys : LedgerCount(key) = CopiesIn(key, applied)

\* C19 happens: a 'watchlist' row is committed by one add_to_watchlist call,
\* with a (name, watchlist) Ledger row and no (name, watched) row.
C19_WatchlistRowCommitted ==
  /\ RowInHand
  /\ tv_time_item.kind = "movie"
  /\ tv_time_item.activity_type = "watchlist"
  /\ outcome = "Committed"
  /\ Len(mutations) = 1
  /\ mutations[1].method = "add_to_watchlist"
  /\ LedgerCount(MovieKey(tv_time_item.name, "watchlist")) = 1
  /\ LedgerCount(MovieKey(tv_time_item.name, "watched")) = 0


\* C20: when the Title carries a year, every item Title.items_with_same_name
\* keeps has that year; when it carries none, the result is the items whose
\* title matches(), in the order of the list.
C20_YearFilter ==
  (ret.done /\ call.op = "items_with_same_name" /\ ret.val.exc = "none") =>
    LET title == Title(call.raw, call.year)
    IN /\ title.year # None =>
            \A k \in 1..Len(ret.val.items) : ret.val.items[k].year = title.year
       /\ title.year = None =>
            ret.val.items =
              SelectSeq(call.found,
                        LAMBDA item : matches(title.name, item.title) = "True")


\* the candidates of the filtered list of lookup c titled exactly like the
\* name the searcher looks up
ExactOf(c) ==
  SelectSeq(FilteredOf(c), LAMBDA i : i.title = searcher_name(c.title))

\* C21: a lookup whose filtered list has two or more candidates, exactly one
\* of them titled like the searched name, returns that candidate, without a
\* prompt and whatever the user-matched table holds; with no or several such
\* candidates the lookup goes by the decision row of the name if there is
\* one (None for a skip, else the candidate at the stored index or the
\* IndexError), and to the prompt if there is none.
C21_ExactTitleTieBreak ==
  [][(pc = "stopped" /\ call'.op = "search" /\ Len(FilteredOf(call')) >= 2) =>
       LET name == searcher_name(call'.title)
           rows == {r \in DOMAIN user_matched_table(searcher_kind) : r.Name = name}
       IN IF Len(ExactOf(call')) = 1
            THEN /\ tables' = tables
                 /\ pc' # "prompt"
                 /\ ret' = [done |-> TRUE, prompted |-> FALSE,
                            val |-> [exc |-> "none", item |-> ExactOf(call')]]
          ELSE IF rows = {}
            THEN /\ pc' = "prompt"
                 /\ ~ret'.done
                 /\ searcher_items' = FilteredOf(call')
          ELSE /\ pc' # "prompt"
               /\ tables' = tables
               /\ ret'.done /\ ~ret'.prompted
               /\ \E r \in rows :
                    IF r.Skip THEN ret'.val = [exc |-> "none", item |-> <<>>]
                    ELSE IF IndexOk(FilteredOf(call'), r.UserSelectedIndex)
                      THEN ret'.val =
                             [exc |-> "none",
                              item |-> <<At(FilteredOf(call'), r.UserSelectedIndex)>>]
                    ELSE ret'.val.exc = "IndexError"]_vars

\* C21 happens: while the table holds a decision for the name, a lookup with
\* two candidates, one of them titled like the name, returns that one.
C21_TieBreakDespiteDecision ==
  /\ call.op = "search"
  /\ Len(FilteredOf(call)) = 2
  /\ Len(ExactOf(call)) = 1
  /\ CountRows(user_matched_table(searcher_kind),
               LAMBDA r : r.Name = searcher_name(call.title)) = 1
  /\ ret.done
  /\ ret.val = [exc |-> "none", item |-> ExactOf(call)]


(***************************************************************************)
(* process_watched_shows (TimeToTrakt.py 348-481): the loop over the rows  *)
(* of the export with the while loop inside it.  error_streak and          *)
(* trakt_show_obj (trakt_item here) are locals of the function, not of the *)
(* row: they keep their value from one row to the next.                    *)
(***************************************************************************)
\* get_show_by_name (TimeToTrakt.py 170-320) on the list TVShow.search
\* returned and on what the human types if asked: the exception or the show
\* returned (<<>> is None), and the documents inserted into
\* userMatchedShowsTable
get_show_by_name_select(name, shows_with_same_name, answer) ==
  LET query_result == {r \in DOMAIN userMatchedShowsTable : r.ShowName = name}
  IN IF Len(shows_with_same_name) > 1
       THEN IF CountRows(userMatchedShowsTable, LAMBDA r : r.ShowName = name) = 1
              THEN LET first_match == CHOOSE r \in query_result : TRUE
                   IN IF first_match.SkipShow
                        THEN [exc |-> "none", show |-> <<>>, docs |-> <<>>]
                      ELSE IF IndexOk(shows_with_same_name,
                                      first_match.UserSelectedIndex)
                        THEN [exc |-> "none",
                              show |-> <<At(shows_with_same_name,
                                            first_match.UserSelectedIndex)>>,
                              docs |-> <<>>]
                      ELSE [exc |-> "IndexError", show |-> <<>>, docs |-> <<>>]
              ELSE LET r == handle_multiple_manually(shows_with_same_name,
                                                     name, answer)
                   IN [exc |-> r.exc, show |-> r.item,
                       docs |-> [k \in 1..Len(r.docs) |->
                                   [ShowName |-> r.docs[k].Name,
                                    UserSelectedIndex |-> r.docs[k].UserSelectedIndex,
                                    SkipShow |-> r.docs[k].Skip]]]
     ELSE IF Len(shows_with_same_name) > 0
       THEN [exc |-> "none", show |-> <<shows_with_same_name[1]>>, docs |-> <<>>]
     ELSE [exc |-> "none", show |-> <<>>, docs |-> <<>>]

\* shows_with_same_name: the one complete match when there is exactly one,
\* otherwise every item the filter kept
get_show_by_name_complete(name, items, complete_match_names, answer) ==
  get_show_by_name_select(name,
                          IF Len(complete_match_names) = 1
                            THEN complete_match_names ELSE items,
                          answer)

get_show_by_name_filtered(name, filtered, answer) ==
  IF filtered.exc # "none"
    THEN [exc |-> "Exception", show |-> <<>>, docs |-> <<>>]
  ELSE get_show_by_name_complete(name, filtered.items,
                                 SelectSeq(filtered.items,
                                           LAMBDA s : s.title = name),
                                 answer)

get_show_by_name_titled(raw, title_obj, tv_search, answer) ==
  get_show_by_name_filtered(IF title_obj.yearValue # -1
                              THEN title_obj.titleWithoutYear ELSE raw,
                            get_show_by_name_filter(raw, tv_search),
                            answer)

get_show_by_name(raw, tv_search, answer) ==
  get_show_by_name_titled(raw, get_year_from_title(raw), tv_search, answer)

\* the rows of the csv and the lists TVShow.search returns
WatchedShowsRows ==
  {row \in ShowRows : row.season_number = 1 /\ row.episode_number \in {1, 2}}
TVShowSearchResults == UNION {[1..k -> {ItemX, ItemY}] : k \in 0..MaxResults}
\* the csv files: the rows in the order of the file
MaxRows == 2
WatchedShowsFiles == UNION {[1..k -> WatchedShowsRows] : k \in 0..MaxRows}

\* enumerate(shows_reader): the place of the next row
next_row_index_skipping(rowsCount) == rowsCount + 2

next_row_index(rowsCount) == rowsCount + 1

\* the except clauses of the while loop (TimeToTrakt.py 428-477).  The
\* IndexError clause reads trakt_show_obj; an exception that no clause names
\* leaves the function.
ShowsHandle(exc) ==
  /\ unclassified' =
       (unclassified \/ exc \notin {"IndexError", "NotFoundException",
                                     "RateLimitException", "JSONDecodeError"})
  /\ CASE exc = "IndexError" ->
            IF trakt_item = Unbound
              THEN pc' = "stopped" /\ outcome' = "Propagated"
                   /\ UNCHANGED error_streak
              ELSE Break("Failed")
       [] exc = "NotFoundException" -> Break("Failed")
       [] exc \in {"RateLimitException", "JSONDecodeError"} ->
            pc' = "cooldown" /\ outcome' = "none" /\ UNCHANGED error_streak
       [] OTHER -> pc' = "stopped" /\ outcome' = "Propagated"
                   /\ UNCHANGED error_streak

\* the next row of the csv: the Ledger lookup, then the while loop is
\* entered with error_streak as the rows before left it
\* (TimeToTrakt.py 362-397)
ShowsReadRow ==
  /\ pc = "next_row"
  /\ next_row_index(ret.rowsCount) <= Len(call.csv)
  /\ ret' = [ret EXCEPT !.rowsCount = next_row_index(ret.rowsCount)]
  /\ LET row == call.csv[next_row_index(ret.rowsCount)]
     IN /\ tv_time_item' = row
        /\ key_at_start' = InLedger(LogicalKey(row))
        /\ IF get_synced_items(row) # 0
             THEN Break("Skipped")
             ELSE LoopHead(error_streak, row)
  /\ n_search' = 0
  /\ unclassified' = FALSE
  /\ mutations' = <<>>
  /\ UNCHANGED <<tables, runVars, trakt_item, searcher_items, applied, lost,
                 decided, resolved_by, call>>

\* process_watched_shows is called: error_streak = 0, the file is opened
\* (TimeToTrakt.py 348-361)
ShowsStart ==
  /\ pc = "stopped"
  /\ pc' = "next_row"
  /\ ret' = [done |-> FALSE, rowsCount |-> 0]
  /\ tv_time_item' = NoRow
  /\ error_streak' = 0
  /\ trakt_item' = Unbound
  /\ searcher_items' = <<>>
  /\ outcome' = "none"
  /\ key_at_start' = FALSE
  /\ n_search' = 0
  /\ unclassified' = FALSE
  /\ mutations' = <<>>
  /\ resolved_by' = "none"
  /\ UNCHANGED <<tables, runVars, applied, lost, decided, call>>

\* the for loop is exhausted: process_watched_shows returns
ShowsEnd ==
  /\ pc = "next_row"
  /\ next_row_index(ret.rowsCount) > Len(call.csv)
  /\ pc' = "stopped"
  /\ ret' = [ret EXCEPT !.done = TRUE]
  /\ UNCHANGED <<tables, runVars, tv_time_item, error_streak, trakt_item,
                 searcher_items, obsVars, call>>

\* the while loop was left: on to the next row
ShowsReturn ==
  /\ pc = "returned"
  /\ pc' = "next_row"
  /\ outcome' = "none"
  /\ tv_time_item' = NoRow
  /\ key_at_start' = FALSE
  /\ n_search' = 0
  /\ unclassified' = FALSE
  /\ mutations' = <<>>
  /\ UNCHANGED <<tables, runVars, error_streak, trakt_item, searcher_items,
                 applied, lost, decided, resolved_by, pureVars>>

\* TVShow.search raises (TimeToTrakt.py 184, 404-406)
ShowsSearchRaises ==
  /\ pc = "search"
  /\ n_search' = n_search + 1
  /\ \E exc \in ExternalErrors : ShowsHandle(exc)
  /\ UNCHANGED <<tables, runVars, tv_time_item, trakt_item, searcher_items,
                 key_at_start, mutations, applied, lost, decided, resolved_by,
                 pureVars>>

\* get_show_by_name runs on the list TVShow.search returned
\* (TimeToTrakt.py 404-411)
ShowsSearchReturns ==
  /\ pc = "search"
  /\ n_search' = n_search + 1
  /\ \E tv_search \in TVShowSearchResults, answer \in Answers :
       LET r == get_show_by_name(tv_time_item.name, tv_search, answer)
       IN /\ IF r.docs # <<>>
               THEN userMatchedShowsTable' = insert(userMatchedShowsTable, r.docs[1])
               ELSE UNCHANGED userMatchedShowsTable
          /\ IF r.exc # "none"
               THEN ShowsHandle(r.exc) /\ UNCHANGED trakt_item
               ELSE Searched(r.show) /\ UNCHANGED unclassified
  /\ UNCHANGED <<syncedEpisodesTable, syncedMoviesTable, userMatchedMoviesTable,
                 runVars, tv_time_item, searcher_items, key_at_start, mutations,
                 applied, lost, decided, resolved_by, pureVars>>

\* the season or the episode does not exist in the show
\* (TimeToTrakt.py 418-422)
ShowsProcessIndexError ==
  /\ pc = "process"
  /\ process_plan(tv_time_item, trakt_item).kind = "raise"
  /\ ShowsHandle(process_plan(tv_time_item, trakt_item).exc)
  /\ UNCHANGED <<tables, runVars, tv_time_item, trakt_item, searcher_items,
                 key_at_start, n_search, mutations, applied, lost, decided,
                 resolved_by, pureVars>>

\* episode.mark_as_seen raises (TimeToTrakt.py 424)
ShowsMutationRaises ==
  /\ pc = "process"
  /\ process_plan(tv_time_item, trakt_item).kind = "call"
  /\ \E exc \in ExternalErrors : ShowsHandle(exc)
  /\ UNCHANGED <<tables, runVars, tv_time_item, trakt_item, searcher_items,
                 key_at_start, n_search, mutations, applied, lost, decided,
                 resolved_by, pureVars>>

InitWatchedShows ==
  /\ Stopped
  /\ menu_selection = 1
  /\ call \in [op : {"process_watched_shows"}, csv : WatchedShowsFiles]
  /\ ret = [done |-> FALSE, rowsCount |-> 0]

NextWatchedShows ==
  \/ ShowsStart
  \/ ShowsReadRow
  \/ ShowsReturn
  \/ ShowsEnd
  \/ Sleep
  \/ ShowsSearchRaises
  \/ ShowsSearchReturns
  \/ ShowsProcessIndexError
  \/ MutationReturns
  \/ ShowsMutationRaises
  \/ Insert
  \/ Cooldown
  \/ Interrupt

SpecWatchedShows == InitWatchedShows /\ [][NextWatchedShows]_vars

\* C22: error_streak starts at 0 for every row, so every episode row that is
\* not in the Ledger when it is read gets at least one search before the
\* loop leaves it, and a row is abandoned only after 11 searches of its own.
C22_StreakIsPerRow ==
  (RowInHand /\ tv_time_item.kind = "show" /\ ~key_at_start /\ pc = "returned") =>
    /\ n_search >= 1
    /\ outcome = "Abandoned" => n_search = StreakLimit + 1


\* C23: a RateLimitException or JSONDecodeError of the search or of the
\* mutation call leads to the 60-second wait with error_streak untouched and
\* nothing written; when the wait is over error_streak is one more and,
\* unless it is above the limit, the per-attempt delay is next and after it
\* the search; _process is entered only from a search of the same attempt,
\* never from the wait or the delay; and outside an unknown error the delay
\* is reached only from the start of the row or from the wait.
C23_RetryGoesBackToSearch ==
  [][/\ (pc' = "cooldown" /\ pc # "cooldown") =>
          /\ pc \in {"search", "process"}
          /\ error_streak' = error_streak
          /\ tables' = tables
     /\ (pc = "cooldown" /\ pc' # "stopped") =>
          /\ error_streak' = error_streak + 1
          /\ IF error_streak' > StreakLimit
               THEN pc' = "returned" /\ outcome' = "Abandoned"
               ELSE pc' = "sleep"
          /\ n_search' = n_search
          /\ mutations' = mutations
     /\ (pc = "sleep" /\ pc' # "stopped") =>
          (pc' = "search" /\ n_search' = n_search /\ mutations' = mutations)
     /\ pc' = "search" => pc = "sleep"
     /\ pc' = "process" => (pc \in {"search", "prompt"} /\ n_search' >= 1)
     /\ (pc' = "sleep" /\ pc \notin {"next_row", "cooldown"}) => unclassified'
     /\ Len(mutations') > Len(mutations) => pc = "process"]_vars

\* C23 happens: after a retryable failure of the mutation call the row is at
\* a new search, with the candidate of the failed attempt still bound and
\* one error counted.
C23_SearchingAgainAfterFailedApply ==
  /\ RowInHand
  /\ pc = "search"
  /\ error_streak = 1
  /\ ~unclassified
  /\ trakt_item # Unbound
  /\ n_search = 1
  /\ mutations = <<>>


\* C24: the step in which a NotFoundException or an IndexError of the search
\* or of _process is handled ends the row Failed with process_item
\* returning: error_streak and the Ledger are as before, and the only step
\* after it hands the row back, with no search and no mutation call.
C24_TerminalFailureEndsFailed ==
  [][/\ (outcome' \in {"Failed", "Propagated"} /\ outcome = "none") =>
          /\ outcome' = "Failed"
          /\ pc' = "returned"
          /\ error_streak' = error_streak
          /\ LedgerTables' = LedgerTables
          /\ Len(mutations') = Len(mutations)
     /\ outcome = "Failed" =>
          (pc = "returned" /\ pc' = "next_row" /\ tables' = tables)]_vars


\* a SKIP decision is written to a user-matched table in this step
SkipWritten ==
  \E r \in DOMAIN userMatchedShowsTable' \cup DOMAIN userMatchedMoviesTable' :
    /\ r.Skip
    /\ r \notin DOMAIN userMatchedShowsTable \cup DOMAIN userMatchedMoviesTable

\* C25: the step in which the search returns None ends the row Unmatched
\* with process_item returning: that search was the only one of its attempt
\* (the row had one search per counted error, and one more), no mutation
\* call was made, the Ledger and error_streak are as before, and the only
\* step after it hands the row back; a SKIP typed at the prompt is such a
\* step.
C25_UnmatchedIsTerminal ==
  [][/\ (outcome' = "Unmatched" /\ outcome = "none") =>
          /\ pc \in {"search", "prompt"}
          /\ pc' = "returned"
          /\ n_search' = error_streak + 1
          /\ mutations' = <<>>
          /\ error_streak' = error_streak
          /\ LedgerTables' = LedgerTables
          /\ applied' = applied
     /\ (pc = "prompt" /\ SkipWritten) => outcome' = "Unmatched"
     /\ outcome = "Unmatched" =>
          (pc = "returned" /\ pc' = "next_row" /\ tables' = tables)]_vars

\* C25 happens: a row ended Unmatched on a stored SKIP decision, after one
\* search and with nothing applied.
C25_UnmatchedByStoredSkip ==
  /\ RowInHand
  /\ outcome = "Unmatched"
  /\ resolved_by = "memo"
  /\ n_search = 1
  /\ error_streak = 0
  /\ mutations = <<>>
  /\ ~InLedger(LogicalKey(tv_time_item))


\* C26: a catalog search is made only in the step after time.sleep(delay)
\* has returned, and each delay is followed by at most one search; the
\* prompt and _process are entered only from that search, and a mutation
\* call is made only in _process: so every search, the first of a row and
\* every retry, and every mutation call has the delay of its own attempt
\* before it.
C26_DelayBeforeEveryAttempt ==
  [][/\ n_search' > n_search => (pc = "search" /\ n_search' = n_search + 1)
     /\ pc' = "search" => (pc = "sleep" /\ n_search' = n_search)
     /\ pc = "search" => pc' # "search"
     /\ pc' = "prompt" => pc = "search"
     /\ pc' = "process" => pc \in {"search", "prompt"}
     /\ Len(mutations') > Len(mutations) =>
          (pc = "process" /\ pc' = "insert" /\ n_search >= 1)]_vars

\* C26 happens: a row is in _process on its second attempt, after a second
\* delay and a second search.
C26_SecondAttemptInProcess ==
  /\ RowInHand
  /\ pc = "process"
  /\ n_search = 2
  /\ error_streak = 1


\* C27: a lookup that goes by a stored decision (not a skip) returns the
\* candidate standing at the stored index of the list of this lookup,
\* whichever candidate that is, or raises IndexError if the list has no such
\* place; so on the two candidates of the decision in the other order it
\* returns the candidate the human did not choose.
C27_MemoReplayIsPositional ==
  \A d \in decided :
    (/\ ~d.doc.Skip
     /\ call.op = "search"
     /\ searcher_name(call.title) = d.name
     /\ ret.done /\ ~ret.prompted
     /\ Len(FilteredOf(call)) >= 2
     /\ Len(ExactOf(call)) # 1) =>
      /\ ret.val =
           IF IndexOk(FilteredOf(call), d.doc.UserSelectedIndex)
             THEN [exc |-> "none",
                   item |-> <<At(FilteredOf(call), d.doc.UserSelectedIndex)>>]
             ELSE [exc |-> "IndexError", item |-> <<>>]
      /\ (/\ Len(d.items) = 2
          /\ d.items[1] # d.items[2]
          /\ FilteredOf(call) = <<d.items[2], d.items[1]>>) =>
           (ret.val.exc = "none" /\ ret.val.item # d.item)

\* C27 happens: the catalog returns the two candidates of a decision in the
\* other order, and the lookup returns the one that was not chosen.
C27_ReplayOnReorderedList ==
  \E d \in decided :
    /\ ~d.doc.Skip
    /\ call.op = "search"
    /\ searcher_name(call.title) = d.name
    /\ ret.done /\ ~ret.prompted
    /\ Len(d.items) = 2
    /\ d.items[1] # d.items[2]
    /\ FilteredOf(call) = <<d.items[2], d.items[1]>>
    /\ ret.val.exc = "none"
    /\ ret.val.item # d.item


\* C28: Title(raw) returns for every raw a Title with its three fields, name
\* being raw; when raw has no parenthesized group of word characters, or the
\* first one is not an integer, year is none and the normalized form is raw;
\* a Title without a year never has a normalized form other than raw, and a
\* Title with a year has the trimmed text before the first "(" as its
\* normalized form.
C28_TitleNeverFails ==
  ret.done =>
    /\ DOMAIN ret.val = {"name", "without_year", "year"}
    /\ ret.val.name = call.title
    /\ ret.val.year \in Int
    /\ (\/ Groups(call.title) = {}
        \/ ~IntParses(SubSeq(call.title, FirstGroup(call.title)[1] + 1,
                             FirstGroup(call.title)[2] - 1))) =>
         ret.val.year = None
    /\ ret.val.year = None => ret.val.without_year = call.title
    /\ ret.val.year # None =>
         ret.val.without_year =
           strip(SubSeq(call.title, 1, FirstParen(call.title) - 1))

\* C28 happens: the raw name has a parenthesized group that is not an
\* integer, and the Title has no year and raw as its normalized form.
C28_GroupThatIsNotAYear ==
  /\ ret.done
  /\ Groups(call.title) # {}
  /\ ret.val.year = None
  /\ ret.val.without_year = call.title


\* C29: the row in hand is the row at the place the reader has reached in
\* the file; the reader moves one place at a time and only when the loop
\* has left the row before with a terminal outcome (an abandoned row being a
\* failed one) or the run has just started; and a search or a mutation call
\* is made only for the row in hand, which stays the same in that step.
C29_RowsInOrderOneAtATime ==
  [][/\ RowInHand' =>
          (/\ ret'.rowsCount \in 1..Len(call'.csv)
           /\ tv_time_item' = call'.csv[ret'.rowsCount])
     /\ ret'.rowsCount # ret.rowsCount =>
          \/ pc = "stopped" /\ ret'.rowsCount = 0
          \/ pc = "next_row" /\ ret'.rowsCount = ret.rowsCount + 1
     /\ pc' = "next_row" =>
          \/ pc = "stopped"
          \/ /\ pc = "returned"
             /\ outcome \in {"Skipped", "Unmatched", "Committed", "Failed",
                             "Abandoned"}
     /\ (n_search' > n_search \/ Len(mutations') > Len(mutations)) =>
          /\ RowInHand
          /\ tv_time_item' = tv_time_item
          /\ ret' = ret
          /\ outcome = "none"]_vars

\* C29 happens: the second row of the file is at its search, the first row
\* having been committed.
C29_SecondRowAfterFirstCommitted ==
  /\ Len(call.csv) = 2
  /\ ret.rowsCount = 2
  /\ call.csv[1] # call.csv[2]
  /\ tv_time_item = call.csv[2]
  /\ pc = "search"
  /\ InLedger(LogicalKey(call.csv[1]))
  /\ ~InLedger(LogicalKey(call.csv[2]))


\* no two rows of the table have the same Name, and no row is there twice
OneRowPerName(table) ==
  \A r1 \in DOMAIN table :
    /\ table[r1] = 1
    /\ \A r2 \in DOMAIN table : r1.Name = r2.Name => r1 = r2

\* C30: after every step each user-matched table holds at most one decision
\* row per name, and every row it held before the step is still there,
\* unchanged.
C30_OneDecisionPerName ==
  [][/\ OneRowPerName(userMatchedShowsTable')
     /\ OneRowPerName(userMatchedMoviesTable')
     /\ Keeps(userMatchedShowsTable, userMatchedShowsTable')
     /\ Keeps(userMatchedMoviesTable, userMatchedMoviesTable')]_vars

\* C30 happens: for a row after the one that wrote it, the decision row of a
\* name has answered a lookup and is still the only row of that name.
C30_DecisionReusedAndKept ==
  /\ RowInHand
  /\ resolved_by = "memo"
  /\ CountRows(user_matched_table(tv_time_item.kind),
               LAMBDA r : r.Name = current_name) = 1
  /\ BagCardinality(user_matched_table(tv_time_item.kind)) = 1

\* C31: every decision row written with Skip = FALSE has a selected index
\* i with 0 <= i < n, n the number of candidates listed at the prompt, and
\* the candidate returned is the one listed under number i + 1; an answer
\* outside 1..n, zero and negative numbers included, selects nothing and
\* writes no row.
C31_SelectionInRange ==
  \A d \in decided :
    ~d.doc.Skip =>
      /\ 0 <= d.doc.UserSelectedIndex
      /\ d.doc.UserSelectedIndex < Len(d.items)
      /\ d.item = <<d.items[d.doc.UserSelectedIndex + 1]>>

\* the season index and the episode position of the row in hand are inside
\* the season list and the episode list of the show that was resolved
EpisodeInRange ==
  LET season_numbers == [k \in 1..Len(trakt_item.seasons) |->
                           trakt_item.seasons[k].season]
      parsed == parse_season_number(tv_time_item.season_number, season_numbers)
  IN /\ parsed.exc = "none"
     /\ 0 <= parsed.val
     /\ parsed.val < Len(trakt_item.seasons)
     /\ 0 <= tv_time_item.episode_number - 1
     /\ tv_time_item.episode_number - 1
          < trakt_item.seasons[parsed.val + 1].episodes

\* C32: mark_as_seen is issued only on the episode at position
\* episode_number - 1 of the resolved season, with that position and the
\* season index in range; for every other episode row whose show was
\* resolved (episode number 0 included) no mutation call is issued, no
\* Ledger entry is written and the row ends Failed.
C32_NoMutationOutOfRange ==
  (RowInHand /\ tv_time_item.kind = "show" /\ trakt_item # Unbound) =>
    /\ \A k \in 1..Len(mutations) :
         /\ EpisodeInRange
         /\ mutations[k].episode = tv_time_item.episode_number - 1
    /\ (~EpisodeInRange /\ pc = "returned") =>
         /\ mutations = <<>>
         /\ outcome = "Failed"
         /\ ~InLedger(LogicalKey(tv_time_item))

\* C33: over records and completed runs the Ledger holds at most one row
\* per episode id and at most one per (movie name, type), duplicate records
\* in a batch included; a record adds at most one Ledger row, under its own
\* key, and that row ends the record.
C33_LedgerUniqueOwnKeyed ==
  [][/\ \A key \in AllKeys : LedgerCount(key)' <= 1
     /\ \A key \in AllKeys :
          LedgerCount(key)' # LedgerCount(key) =>
            /\ key = LogicalKey(tv_time_item)
            /\ LedgerCount(key) = 0
            /\ outcome = "none"
            /\ pc' = "returned"
     /\ pc = "returned" => LedgerTables' = LedgerTables]_vars

\* C33 happens: a 'watchlist' record whose key is already in the Ledger,
\* and which the lookup at the start does not skip, went through the search
\* and ended without a call; the Ledger still holds one row under its key.
C33_DuplicateWatchlistRecord ==
  /\ RowInHand
  /\ tv_time_item.kind = "movie"
  /\ tv_time_item.activity_type = "watchlist"
  /\ key_at_start
  /\ pc = "returned"
  /\ outcome = "AlreadyInWatchlist"
  /\ n_search >= 1
  /\ mutations = <<>>
  /\ LedgerCount(LogicalKey(tv_time_item)) = 1

\* the step in which the clause `except Exception` (processor.py 107-112)
\* handles an exception of the search or of _process: the only way from the
\* try block straight back to the head of the loop
UnknownErrorCounted ==
  /\ pc \in {"search", "prompt", "process"}
  /\ \/ pc' = "sleep"
     \/ pc' = "returned" /\ outcome' = "Abandoned"

\* C34: an exception of the search or the apply step that is none of
\* IndexError, NotFoundException, RateLimitException, JSONDecodeError and
\* KeyboardInterrupt never leaves process_item and never ends the row: it
\* adds one to the error streak that the rate-limit and JSON waits also
\* count in, writes nothing, and the row is retried; a row is abandoned
\* exactly when that one streak passes 10, with no mutation and no Ledger
\* write.
C34_UnknownErrorsAreBoundedRetries ==
  [][/\ (~unclassified /\ unclassified') => UnknownErrorCounted
     /\ UnknownErrorCounted =>
          /\ unclassified'
          /\ error_streak' = error_streak + 1
          /\ (error_streak' > StreakLimit) = (outcome' = "Abandoned")
          /\ tv_time_item' = tv_time_item
          /\ tables' = tables
          /\ applied' = applied
     /\ (RowInHand' /\ pc' = "sleep") => error_streak' = n_search'
     /\ (RowInHand' /\ pc' = "cooldown") => error_streak' = n_search' - 1
     /\ error_streak' <= StreakLimit + 1
     /\ outcome' = "Abandoned" =>
          /\ pc' = "returned"
          /\ error_streak' = StreakLimit + 1
          /\ mutations' = <<>>
          /\ LedgerTables' = LedgerTables]_vars

\* C34 happens: an unknown error was counted for the row, which is now in
\* the 60-second wait of a rate-limit or JSON failure with the streak at 10:
\* the failures of both kinds were counted together, and the end of the wait
\* abandons the row.
C34_MixedFailuresInOneStreak ==
  /\ RowInHand
  /\ pc = "cooldown"
  /\ unclassified
  /\ error_streak = StreakLimit
  /\ n_search = StreakLimit + 1
  /\ mutations = <<>>

(***************************************************************************)
(* process_item when every call it waits for comes back: time.sleep        *)
(* returns, the catalog search and the mutation call return or raise, and  *)
(* the human ends up typing SKIP or a number at the prompt.  An interrupt   *)
(* may happen but is never owed.                                           *)
(***************************************************************************)
SpecFair ==
  /\ Init
  /\ [][Next]_vars
  /\ WF_vars(Sleep)
  /\ WF_vars(SearchRaises \/ SearchReturns)
  /\ WF_vars(PromptSkip \/ PromptSelects \/ PromptOutOfRange)
  /\ WF_vars(ProcessIndexError \/ ProcessAlreadyInWatchlist
             \/ MutationReturns \/ MutationRaises)
  /\ WF_vars(Insert)
  /\ WF_vars(Cooldown)

\* process_item is inside its loop for the row in hand
InLoop ==
  RowInHand /\ pc \in {"sleep", "search", "prompt", "process", "insert",
                        "cooldown"}

\* C35: when every external call returns or raises and the human ends up
\* answering the prompt, process_item ends for every row; up to then it has
\* made at most 11 catalog searches, each attempt makes at most one mutation
\* call, which belongs to the search of the same attempt, and at most one
\* mutation call returns.
C35_RecordTerminates ==
  /\ [](/\ n_search <= StreakLimit + 1
        /\ Len(mutations) <= 1
        /\ pc \in {"process", "insert"} =>
             (n_search = error_streak + 1 /\ n_search <= StreakLimit + 1)
        /\ pc = "process" => mutations = <<>>)
  /\ InLoop ~> (pc \in {"returned", "stopped"})

\* C35 happens: process_item returned after ten failed attempts and an
\* eleventh whose mutation call returned.
C35_CommittedAtEleventhAttempt ==
  /\ RowInHand
  /\ pc = "returned"
  /\ outcome = "Committed"
  /\ n_search = StreakLimit + 1
  /\ Len(mutations) = 1

\* C36: Title.matches returns a boolean for every pair of strings, a
\* candidate title that is empty or holds only whitespace included.
C36_MatchesIsTotal ==
  (ret.done /\ call.op = "matches") => ret.val \in {"True", "False"}

(***************************************************************************)
(* Runs of one kind over the localStorage.json that runs of the other kind *)
(* left (TimeToTrakt.py 800-833: each start of the program reads a menu    *)
(* selection, and selection 3 is a run of the shows followed by a run of   *)
(* the movies).  The other kind's tables hold a decision for the name "a", *)
(* SKIP or the second candidate, and one Ledger row.                       *)
(***************************************************************************)
OtherDecisions ==
  {[Name |-> NameA, UserSelectedIndex |-> 0, Skip |-> TRUE],
   [Name |-> NameA, UserSelectedIndex |-> 1, Skip |-> FALSE]}

InitStores ==
  /\ menu_selection \in {1, 2}
  /\ \E doc \in OtherDecisions :
       IF menu_selection = 1
         THEN /\ syncedEpisodesTable = EmptyBag
              /\ userMatchedShowsTable = EmptyBag
              /\ syncedMoviesTable =
                   SetToBag({[movie_name |-> NameA, type |-> "watched"]})
              /\ userMatchedMoviesTable = SetToBag({doc})
              /\ applied = SetToBag({MovieKey(NameA, "watched")})
         ELSE /\ syncedEpisodesTable = SetToBag({[episodeId |-> "E1"]})
              /\ userMatchedShowsTable = SetToBag({doc})
              /\ syncedMoviesTable = EmptyBag
              /\ userMatchedMoviesTable = EmptyBag
              /\ applied = SetToBag({EpisodeKey("E1")})
  /\ watched_list = {}
  /\ tv_time_item = NoRow
  /\ pc = "stopped"
  /\ error_streak = 0
  /\ trakt_item = Unbound
  /\ searcher_items = <<>>
  /\ outcome = "none"
  /\ key_at_start = FALSE
  /\ n_search = 0
  /\ unclassified = FALSE
  /\ mutations = <<>>
  /\ lost = EmptyBag
  /\ decided = {}
  /\ resolved_by = "none"
  /\ call = [op |-> "none"]
  /\ ret = [done |-> FALSE]

SpecStores == InitStores /\ [][Next]_vars

\* the tables of each kind (database.py 5-8)
ShowTables == <<syncedEpisodesTable, userMatchedShowsTable>>
MovieTables == <<syncedMoviesTable, userMatchedMoviesTable>>

\* the decision rows for the name of the row in hand, in the table of the
\* row's own kind and in the table of the other kind
OwnDecisions ==
  IF tv_time_item.kind = "show"
    THEN CountRows(userMatchedShowsTable, LAMBDA r : r.Name = current_name)
    ELSE CountRows(userMatchedMoviesTable, LAMBDA r : r.Name = current_name)
OtherKindDecisions ==
  IF tv_time_item.kind = "show"
    THEN CountRows(userMatchedMoviesTable, LAMBDA r : r.Name = current_name)
    ELSE CountRows(userMatchedShowsTable, LAMBDA r : r.Name = current_name)

\* C37: a run of the shows leaves the synced-movies and the
\* user-matched-movies tables as they are and a run of the movies leaves the
\* synced-episodes and the user-matched-shows tables as they are; a row is
\* skipped at the start exactly when the Ledger table of its own kind holds
\* it, a lookup is answered from a stored decision only when the
\* user-matched table of its own kind holds one row for the name, and it
\* prompts when that table holds none, whatever the other kind's tables
\* hold for the same name.
C37_StoresAreIndependent ==
  [][/\ menu_selection = 1 => MovieTables' = MovieTables
     /\ menu_selection = 2 => ShowTables' = ShowTables
     /\ (pc = "next_row" /\ pc' # "stopped") =>
          (outcome' = "Skipped") =
            (IF tv_time_item'.kind = "show"
               THEN CountRows(syncedEpisodesTable,
                              LAMBDA r : r.episodeId = tv_time_item'.episode_id) # 0
               ELSE CountRows(syncedMoviesTable,
                              LAMBDA r : /\ r.movie_name = tv_time_item'.name
                                         /\ r.type = "watched") # 0)
     /\ (pc = "search" /\ resolved_by' = "memo") => OwnDecisions = 1
     /\ (pc = "search" /\ pc' = "prompt") => OwnDecisions = 0
     /\ (pc = "prompt" /\ pc' \notin {"prompt", "stopped"}
           /\ outcome' \in {"none", "Unmatched"}) =>
          (OwnDecisions = 0 /\ OwnDecisions' = 1
           /\ OtherKindDecisions' = OtherKindDecisions)]_vars

\* C37 happens: the user-matched-shows table holds a SKIP decision for the
\* name of the movie in hand and the user-matched-movies table holds none:
\* the movie's lookup is at the prompt.
C37_MoviePromptedDespiteShowSkip ==
  /\ RowInHand
  /\ tv_time_item.kind = "movie"
  /\ pc = "prompt"
  /\ CountRows(userMatchedShowsTable,
               LAMBDA r : r.Name = current_name /\ r.Skip) = 1
  /\ BagCardinality(userMatchedMoviesTable) = 0
  /\ BagCardinality(syncedEpisodesTable) = 1

=============================================================================
